---------------------------- MODULE Spec2Model ----------------------------
(***************************************************************************)
(* Batch reconciliation and backfill engine of indexer-kadena.             *)
(*                                                                         *)
(*  - the code-to-text migration of the db-migrator (Go):                  *)
(*      updateCodeToText / processTransactionsBatchForCode /               *)
(*      processBatchForCode over the table "TransactionDetails";           *)
(*  - the balance reconciliation of the indexer (TypeScript):              *)
(*      syncBalances and syncRecentBalances over the table "Balances",     *)
(*      both fanning their oracle queries out through limitFetch.          *)
(*                                                                         *)
(* Each job has its own specification over the shared variable tuple; the  *)
(* variables of the jobs that do not run stay at their idle values.        *)
(***************************************************************************)
EXTENDS Integers, Sequences, FiniteSets, TLC

(***************************************************************************)
(* Bounds of the model and constants of the program                       *)
(***************************************************************************)

\* highest TransactionDetails id of the small tables
MaxId == 3

\* how many times a job is run in one behaviour (first run plus re-runs)
MaxRuns == 2

\* const codeBatchSize (db-migrator)
codeBatchSize == 500

\* const startTransactionIdForCode (db-migrator)
startTransactionIdForCode == 1

\* number of rows of the small "Balances" tables
MaxRows == 3

\* database failures injected into one behaviour of a balance sync
MaxDbFaults == 1

\* rows other clients insert while syncBalances runs
MaxInserts == 1

\* console.error calls of the application
MaxEvents == 2

\* reports the monitoring endpoint fails
MaxSinkFaults == 1

\* migration files on disk
MaxFiles == 3

\* largest task list handed to the limiter on its own
MaxTasks == 200

\* temporary directories left behind at most
MaxTempDirs == 2

\* const CONCURRENCY_LIMIT (sync-balances.ts, and the same in the recent sync)
CONCURRENCY_LIMIT == 50

\* const BATCH_SIZE (sync-balances.ts)
BATCH_SIZE == 1000

\* The loop of processTransactionsBatchForCode is run at the compiled-in
\* window size and, on the small tables, at window sizes that split them
\* into several windows.
SmallBatchSizes == {1, 2}

\* The loop of syncBalances is run at the compiled-in LIMIT and, on the small
\* tables, at a LIMIT that splits them into several batches.
SmallLimits == {2}

\* keys of the end-to-end scenario table
E2EKeys == 1..1205

(***************************************************************************)
(* Column values.  A column value is a tuple of characters; SQL NULL (a    *)
(* nil []byte after Scan) is a one-element tuple that is no character.     *)
(***************************************************************************)

Quote == "\""

SqlNull == <<"NULL">>

EmptyObject == <<"{", "}">>

QuotedA == <<Quote, "a", Quote>>

Number7 == <<"7">>

\* raw jsonb values a "TransactionDetails".code cell holds in the model
RawValues == {SqlNull, EmptyObject, QuotedA, Number7}

Max(S) == CHOOSE x \in S : \A y \in S : y <= x

Min(S) == CHOOSE x \in S : \A y \in S : x <= y

NoWrites == [i \in {} |-> SqlNull]

\* no statement of the window has read a row yet
NoReads == [validation |-> NoWrites, update |-> NoWrites]

VARIABLES
    \* ---- table "TransactionDetails" (committed state) ----
    code,              \* [existing ids -> raw jsonb value]
    codetext,          \* [existing ids -> text value or SqlNull]
    converted,         \* history: ids whose codetext a committed UPDATE wrote
    \* ---- the db-migrator process ----
    mpc,               \* where the process is
    mrun,              \* number of the current run of the job
    batchSize,         \* window size the loop runs at
    maxTransactionID,
    currentMaxId,
    batchMinId,
    totalProcessed,
    processed,
    lastProgressPrinted,  \* covered ids at the last progress line, -1: none yet
    prevProgressPrinted,  \* history: covered ids at the progress line before it
    txOpen,            \* windows whose transaction is open (begun, not ended)
    txWrites,          \* rows written inside the open transaction
    txReads,           \* history: the rows the statements of the window read
    abortId,           \* id reported by "ABORTING: Found invalid code value"
    windows,           \* history: windows passed to processBatchForCode, this run
    committedWins,     \* history: windows committed in this run
    earlierIds,        \* history: ids of the windows committed by earlier runs
    mlog               \* history: what the run did, in order

VARIABLES
    \* ---- the limiter on its own: limitFetch over a list of tasks ----
    lpc,               \* where the caller of limitFetch is
    lfTotal,           \* K: tasks handed to limitFetch
    lfQueued,          \* tasks waiting in the limiter's queue
    lfActive,          \* tasks in flight (the limiter's activeCount)
    lfSettled          \* tasks whose promise has settled

VARIABLES
    \* ---- table "Balances" ----
    hasTokenId,        \* [id -> BOOLEAN]
    balance,           \* [id -> value of the balance column]
    recent,            \* [id -> updatedAt lies inside the lookback interval]
    inserted,          \* history: ids other clients inserted while the job ran
    \* ---- the node ----
    answer,            \* [id -> what the node answers to the row's query]
    \* ---- the sync job ----
    variant,           \* "full": syncBalances, "recent": syncRecentBalances
    spc,               \* where the job is
    srun,              \* number of the current run of the job
    batchLimit,        \* LIMIT of the batch query
    currentId,
    syncProcessed,     \* totalProcessed of syncBalances
    totalUpdated,
    successCount,
    errorCount,
    rows,              \* rows of the batch, in the order of the query result
    queue,             \* limitFetch: ids of the queued tasks, first in first out
    stage,             \* [id of the batch -> where its task is]
    results,           \* [index of a settled task -> what it resolved to]
    updIdx,            \* index the update loop of syncBalances has reached
    touched,           \* history: ids this run has UPDATEd
    queried,           \* history: the queries this run has sent to the node, by id
    batches,           \* history: the batches this run fetched
    dbFaults,          \* history: database failures so far
    runFaulted,        \* history: a database call failed in this run
    firstRun           \* history: the balance column when run 1 completed

VARIABLES
    \* ---- error monitoring: the replaced console.error and the reporter ----
    env,               \* process.env: the value of each monitoring setting
    monpc,             \* "boot": initializeErrorMonitoring has not run yet
    installed,         \* console.error has been replaced by the interceptor
    opName,            \* global.__currentGraphQLOperationName
    calls,             \* history: the calls of console.error, in order
    reports,           \* the reportError calls: payload, request, promise
    sinkFaults         \* history: reports the sink has failed so far

VARIABLES
    \* ---- db-migrator: main ----
    command,           \* the -command flag
    cpc,               \* where main is: "main", "job", "exited"
    jobsRun,           \* history: the jobs main has called
    jobEnd,            \* how the called job ended: "complete", "fatal"
    exitCode           \* exit status of the process

VARIABLES
    \* ---- run-single-migration.js ----
    available,         \* the .js files of migrations/
    disabled,          \* the .js files of migrations/.disabled/
    rpc,               \* "shell": no invocation runs, "range": in the loop
    argv,              \* command and argument of the running invocation
    migrations,        \* runMigration: the list read before the loop
    runIndex,          \* runMigration: i
    ran,               \* history: the migrations this invocation has run
    rangeSuccessCount, \* runMigration: successCount
    failedAt,          \* runMigration: failedAt, 0 for null
    tempDirs,          \* the temp-migration- directories that exist
    rlog               \* history: the invocation that ended last, and the one
                       \* before it when both are a disable or an enable;
                       \* empty while a range run is in its loop

limVars == <<lpc, lfTotal, lfQueued, lfActive, lfSettled>>

syncVars == <<hasTokenId, balance, recent, inserted, answer, variant, spc, srun,
              batchLimit, currentId, syncProcessed, totalUpdated, successCount,
              errorCount, rows, queue, stage, results, updIdx, touched,
              queried, batches, dbFaults, runFaulted, firstRun>>

progVars == <<lastProgressPrinted, prevProgressPrinted>>

migVars == <<progVars, code, codetext, converted, mpc, mrun, batchSize, maxTransactionID,
             currentMaxId, batchMinId, totalProcessed, processed, txOpen,
             txWrites, txReads, abortId, windows, committedWins, earlierIds, mlog>>

monVars == <<env, monpc, installed, opName, calls, reports, sinkFaults>>

cliVars == <<command, cpc, jobsRun, jobEnd, exitCode>>

runVars == <<available, disabled, rpc, argv, migrations, runIndex, ran,
            rangeSuccessCount, failedAt, tempDirs, rlog>>

toolVars == <<cliVars, runVars>>

vars == <<migVars, limVars, syncVars, monVars, toolVars>>

\* process.exitCode of a process that has not exited
NoExit == -1

\* no file: resolveToFilename has ended the process
NoFile == 0

\* neither command line tool runs
ToolIdle ==
    /\ command = "" /\ cpc = "idle" /\ jobsRun = <<>> /\ jobEnd = ""
    /\ exitCode = NoExit
    /\ available = {} /\ disabled = {} /\ rpc = "idle" /\ argv = <<>>
    /\ tempDirs = {}
    /\ migrations = <<>> /\ runIndex = 0 /\ ran = <<>>
    /\ rangeSuccessCount = 0 /\ failedAt = 0 /\ rlog = <<>>

(***************************************************************************)
(* Error monitoring: initializeErrorMonitoring and HttpErrorReporter        *)
(***************************************************************************)

EnvNames == {"MONITORING_URL", "INSTANCE_NAME", "ERROR_REPORT_API_KEY"}

\* process.env.NAME of a variable that is not set
Unset == <<"undefined">>

\* values of a setting: not set, the empty string, spaces only, a value with
\* spaces around it
EnvValues == {Unset, <<>>, <<" ">>, <<" ", "x", " ">>}

RECURSIVE TrimStart(_)
TrimStart(v) == IF v # <<>> /\ Head(v) = " " THEN TrimStart(Tail(v)) ELSE v

RECURSIVE TrimEnd(_)
TrimEnd(v) ==
    IF v # <<>> /\ v[Len(v)] = " " THEN TrimEnd(SubSeq(v, 1, Len(v) - 1)) ELSE v

\* value?.trim()
Trim(v) == IF v = Unset THEN Unset ELSE TrimEnd(TrimStart(v))

\* Configured without the trim: a setting of spaces counts as present
Configured_NoTrim(v) == v # Unset /\ v # <<>>

\* a setting passes the check !monitoringUrl || !instance || !apiKey
Configured(v) == Trim(v) # Unset /\ Trim(v) # <<>>

\* global.__currentGraphQLOperationName is not set
NoOperation == ""

OperationNames == {"GetBlocks"}

GraphqlTag == "[GRAPHQL]"

\* a JavaScript value that is a string: the pieces of its text, in order
Text(tokens) == [kind |-> "text", tokens |-> tokens]

\* undefined
NoText == [kind |-> "none", tokens |-> <<>>]

\* a value that is not a string, such as the array of messages of a
\* validation error; as a string it reads as its elements
ArrayValue == [kind |-> "array", tokens |-> <<"must be a number">>]

NoError == [present |-> FALSE, message |-> NoText]

ErrorOf(message) == [present |-> TRUE, message |-> message]

\* the arguments of a console.error call, by what the interceptor looks at:
\* the first string, the first Error, and the first argument when it is
\* neither ("plain": an object JSON.stringify renders; "opaque": an object
\* that neither JSON.stringify nor String() can render, e.g. a circular
\* object without prototype)
Arguments(str, err, obj) == [str |-> str, err |-> err, obj |-> obj, ctx |-> <<>>]

\* the same arguments with context: ctx is the text the serialized context
\* bag holds beside the message (fields of the objects passed along, frames
\* and file names of the stack and the call site, the host name)
InContext(args, ctx) == [args EXCEPT !.ctx = ctx]

ArgShapes ==
    { Arguments(Text(<<"[ERROR][DB]", "boom">>), NoError, "none"),
      Arguments(Text(<<GraphqlTag, "boom">>), NoError, "none"),
      Arguments(NoText, ErrorOf(Text(<<"boom">>)), "none"),
      Arguments(NoText, ErrorOf(Text(<<"boom", GraphqlTag>>)), "none"),
      Arguments(NoText, ErrorOf(ArrayValue), "none"),
      Arguments(Text(<<"[ERROR][DB]">>), ErrorOf(Text(<<GraphqlTag, "boom">>)), "none"),
      Arguments(NoText, NoError, "plain"),
      Arguments(NoText, NoError, "opaque") }

\* console.error(err) of reportError's catch block
ReportFailureArgs ==
    Arguments(NoText,
              ErrorOf(Text(<<"[ERROR][MONITORING][REPORT_ERROR] Failed to report error: ",
                             "timeout of 30000ms exceeded">>)),
              "none")

\* the message of initializeErrorMonitoring when a setting is missing
MissingEnvArgs ==
    Arguments(Text(<<"[WARN][MONITORING][ENV]",
                     " Monitoring not initialized. Missing env: ">>),
              NoError, "none")

\* message.includes(tag)
Includes(tokens, tag) == \E k \in 1..Len(tokens) : tokens[k] = tag

\* a value in a boolean position
Truthy(v) == v.kind = "array" \/ (v.kind = "text" /\ v.tokens # <<>>)

\* JSON.stringify(args[0]) throws and String(args[0]) in its catch throws too
NormalizeThrows(args) ==
    /\ ~args.err.present
    /\ args.str.kind = "none"
    /\ args.obj = "opaque"

\* the value of message after the normalisation of the arguments
Normalize(args) ==
    IF args.err.present /\ args.str.kind = "text"
       THEN Text(args.str.tokens \o <<": ">> \o
                 (IF Truthy(args.err.message) THEN args.err.message.tokens
                                              ELSE <<"Error">>))
    ELSE IF args.err.present
       THEN (IF Truthy(args.err.message) THEN args.err.message
                                         ELSE Text(<<"Error">>))
    ELSE IF args.str.kind = "text" THEN args.str
    ELSE IF args.obj = "plain" THEN Text(<<"{\"code\":1}">>)
    ELSE Text(<<"Unknown error">>)

\* classifySeverity: (message || '').toLowerCase() is not a function
ClassifyThrows(message) == message.kind # "text"

\* toLowerCase of one piece of text
ToLower(piece) ==
    CASE piece = "ECONNREFUSED" -> "econnrefused"
      [] piece = "Timed" -> "timed"
      [] piece = "Slow" -> "slow"
      [] piece = "FATAL" -> "fatal"
      [] OTHER -> piece

LowerCase(tokens) == [k \in DOMAIN tokens |-> ToLower(tokens[k])]

\* hay.includes(h) for a hint of several words: its words occur in a row
IncludesHint(hay, h) ==
    \E k \in 0..(Len(hay) - Len(h)) : \A j \in 1..Len(h) : hay[k + j] = h[j]

majorHints ==
    { <<"enotfound">>, <<"econnrefused">>, <<"econnreset">>,
      <<"connection", "refused">>, <<"conn_refused">>, <<"conn_reset">>,
      <<"failed", "to", "start">>, <<"migration", "failed">>,
      <<"eventsource", "connection", "error">>,
      <<"entire", "backfill", "halted">>, <<"fatal">>,
      <<" code\":\"28000">>, <<"role \"">> }

degradedHints ==
    { <<"timeout">>, <<"timed", "out">>, <<"conn_timeout">>, <<"int_timeout">>,
      <<"sync_timeout">>, <<"partial">>, <<"incomplete">>, <<"retry">>,
      <<"rate", "limit">>, <<"delayed">>, <<"inconsistent">>, <<"exceed">>,
      <<"please", "backfill">>, <<"data_missing">>, <<"data_invalid">>,
      <<"data_format">> }

minimalHints ==
    { <<"minor", "parsing">>, <<"non", "standard">>, <<"non-standard">>,
      <<"transient">>, <<"slow", "query">>, <<"slow", "queries">>,
      <<"occasionally", "retry">>, <<"occasional", "retry">>,
      <<"small", "gaps">>, <<"less", "critical">>, <<"less-critical">>,
      <<"minor", "formatting">>, <<"sporadic", "log", "gaps">>,
      <<"log", "gaps">>, <<"formatting", "issue">> }

\* hints.some(h => hay.includes(h))
SomeHint(hints, hay) == \E h \in hints : IncludesHint(hay, h)

\* JSON.stringify(extra) at the call of classifySeverity: the merged context
\* objects and the call site, and the stack of the first Error, which starts
\* with its message
ExtraText(args) ==
    args.ctx \o (IF args.err.present THEN args.err.message.tokens ELSE <<>>)

\* classifySeverity looking at the message only
classifySeverity_MessageOnly(message, extra) ==
    LET hay == LowerCase(message) IN
        IF SomeHint(majorHints, hay) THEN "major"
        ELSE IF SomeHint(degradedHints, hay) THEN "degraded"
        ELSE IF SomeHint(minimalHints, hay) THEN "minimal"
        ELSE "none"

\* classifySeverity testing the degraded hints before the major hints
classifySeverity_DegradedFirst(message, extra) ==
    LET hay == LowerCase(message) \o <<" ">> \o LowerCase(extra) IN
        IF SomeHint(degradedHints, hay) THEN "degraded"
        ELSE IF SomeHint(majorHints, hay) THEN "major"
        ELSE IF SomeHint(minimalHints, hay) THEN "minimal"
        ELSE "none"

\* classifySeverity(message, extra) for a message that is a string
classifySeverity(message, extra) ==
    LET hay == LowerCase(message) \o <<" ">> \o LowerCase(extra) IN
        IF SomeHint(majorHints, hay) THEN "major"
        ELSE IF SomeHint(degradedHints, hay) THEN "degraded"
        ELSE IF SomeHint(minimalHints, hay) THEN "minimal"
        ELSE "none"

\* no severity: the call did not get to reporter.reportError
NoSeverity == ""

\* what one call of the replaced console.error does, in order, when the
\* operation name is op
Handler(args, op) ==
    IF NormalizeThrows(args)
       THEN [steps |-> <<"original", "normalize">>, result |-> "threw",
             forward |-> FALSE, error |-> NoText, severity |-> NoSeverity]
    ELSE LET message == Normalize(args) IN
       IF message.kind = "text" /\ Includes(message.tokens, GraphqlTag)
          THEN [steps |-> <<"original", "normalize", "tag">>,
                result |-> "returned", forward |-> FALSE, error |-> message,
                severity |-> NoSeverity]
       ELSE IF op # NoOperation
          THEN [steps |-> <<"original", "normalize", "operation">>,
                result |-> "returned", forward |-> FALSE, error |-> message,
                severity |-> NoSeverity]
       ELSE IF ClassifyThrows(message)
          THEN [steps |-> <<"original", "normalize", "classify">>,
                result |-> "threw", forward |-> FALSE, error |-> message,
                severity |-> NoSeverity]
       ELSE [steps |-> <<"original", "normalize", "classify", "report">>,
             result |-> "returned", forward |-> TRUE, error |-> message,
             severity |-> classifySeverity(message.tokens, ExtraText(args))]

\* console.error as it was before initializeErrorMonitoring
OriginalOnly ==
    [steps |-> <<"original">>, result |-> "returned", forward |-> FALSE,
     error |-> NoText, severity |-> NoSeverity]

\* the record of one console.error call made by origin
CallRecord(args, origin) ==
    LET h == IF installed THEN Handler(args, opName) ELSE OriginalOnly IN
        [args |-> args, origin |-> origin, intercepted |-> installed,
         operation |-> opName, steps |-> h.steps, result |-> h.result,
         forward |-> h.forward, error |-> h.error, severity |-> h.severity]

\* reporter.reportError(...) of call number n: axios.post is issued and the
\* pending promise is dropped (void)
Reported(reps, c, n) ==
    IF c.forward
       THEN Append(reps, [call |-> n, error |-> c.error, operation |-> c.operation,
                          severity |-> c.severity,
                          sink |-> "inflight", promise |-> "pending"])
       ELSE reps

MonIdle ==
    /\ env = [n \in EnvNames |-> Unset] /\ monpc = "idle" /\ installed = FALSE /\ opName = NoOperation
    /\ calls = <<>> /\ reports = <<>> /\ sinkFaults = 0

MonInit ==
    /\ env \in [EnvNames -> EnvValues]
    /\ monpc = "boot" /\ installed = FALSE /\ opName = NoOperation
    /\ calls = <<>> /\ reports = <<>> /\ sinkFaults = 0

\* initializeErrorMonitoring
Initialize ==
    /\ UNCHANGED <<migVars, limVars, syncVars, toolVars>>
    /\ monpc = "boot"
    /\ monpc' = "ready"
    /\ IF \A n \in EnvNames : Configured(env[n])
          THEN /\ installed' = TRUE
               /\ calls' = calls
          ELSE /\ installed' = FALSE
               /\ calls' = Append(calls, CallRecord(MissingEnvArgs, "init"))
    /\ UNCHANGED <<env, opName, reports, sinkFaults>>

\* a GraphQL operation starts: its name is put into the global
OperationStarts ==
    /\ UNCHANGED <<migVars, limVars, syncVars, toolVars>>
    /\ opName = NoOperation
    /\ opName' \in OperationNames
    /\ UNCHANGED <<env, monpc, installed, calls, reports, sinkFaults>>

\* the operation ends: the global is cleared
OperationEnds ==
    /\ UNCHANGED <<migVars, limVars, syncVars, toolVars>>
    /\ opName # NoOperation
    /\ opName' = NoOperation
    /\ UNCHANGED <<env, monpc, installed, calls, reports, sinkFaults>>

\* the application calls console.error(...args)
ConsoleError(args) ==
    /\ UNCHANGED <<migVars, limVars, syncVars, toolVars>>
    /\ monpc \in {"boot", "ready"}
    /\ Cardinality({k \in 1..Len(calls) : calls[k].origin = "app"}) < MaxEvents
    /\ calls' = Append(calls, CallRecord(args, "app"))
    /\ reports' = Reported(reports, CallRecord(args, "app"), Len(calls) + 1)
    /\ UNCHANGED <<env, monpc, installed, opName, sinkFaults>>

\* axios.post of report k resolves: reportError returns
SinkDelivers(k) ==
    /\ UNCHANGED <<migVars, limVars, syncVars, toolVars>>
    /\ reports[k].sink = "inflight"
    /\ reports' = [reports EXCEPT ![k].sink = "delivered",
                                  ![k].promise = "resolved"]
    /\ UNCHANGED <<env, monpc, installed, opName, calls, sinkFaults>>

\* SinkFails without the catch block: the rejection of axios.post leaves
\* reportError
SinkFails_Rethrow(k) ==
    /\ UNCHANGED <<migVars, limVars, syncVars, toolVars>>
    /\ reports[k].sink = "inflight"
    /\ sinkFaults < MaxSinkFaults
    /\ sinkFaults' = sinkFaults + 1
    /\ reports' = [reports EXCEPT ![k].sink = "failed",
                                  ![k].promise = "rejected"]
    /\ UNCHANGED <<env, monpc, installed, opName, calls>>

\* axios.post of report k rejects (error status, network error, timeout):
\* the catch block of reportError calls console.error(err) and returns
SinkFails(k) ==
    /\ UNCHANGED <<migVars, limVars, syncVars, toolVars>>
    /\ reports[k].sink = "inflight"
    /\ sinkFaults < MaxSinkFaults
    /\ sinkFaults' = sinkFaults + 1
    /\ LET c == CallRecord(ReportFailureArgs, "reporter") IN
        /\ calls' = Append(calls, c)
        /\ reports' =
              Reported([reports EXCEPT
                           ![k].sink = "failed",
                           ![k].promise = IF c.result = "threw" THEN "rejected"
                                                                ELSE "resolved"],
                       c, Len(calls) + 1)
    /\ UNCHANGED <<env, monpc, installed, opName>>

\* messages and contexts that hold keywords of the severity tiers
SeverityMessages ==
    { <<"connect", "ECONNREFUSED", "127.0.0.1:5432">>,
      <<"ECONNREFUSED", "-", "request", "Timed", "out">>,
      <<"request", "timed", "out">>,
      <<"Slow", "query", "took", "5s">>,
      <<"request", "timed", "out", "after", "slow", "query">>,
      <<"occasionally", "retry">>,
      <<"boom">> }

SeverityContexts == { <<>>, <<"retry">>, <<"FATAL">>, <<"log", "gaps">> }

SeverityShapes ==
    { InContext(Arguments(Text(m), NoError, "none"), c) :
         m \in SeverityMessages, c \in SeverityContexts }
    \cup { Arguments(NoText, ErrorOf(Text(<<"request", "timed", "out">>)), "none") }

\* the process after initializeErrorMonitoring with all settings present
MonReady ==
    /\ env = [n \in EnvNames |-> <<" ", "x", " ">>]
    /\ monpc = "ready" /\ installed = TRUE /\ opName = NoOperation
    /\ calls = <<>> /\ reports = <<>> /\ sinkFaults = 0

\* events that carry severity keywords are reported
SeverityNext == \E args \in SeverityShapes : ConsoleError(args)

MonNext ==
    \/ Initialize
    \/ OperationStarts
    \/ OperationEnds
    \/ \E args \in ArgShapes : ConsoleError(args)
    \/ \E k \in DOMAIN reports : SinkDelivers(k)
    \/ \E k \in DOMAIN reports : SinkFails(k)

(***************************************************************************)
(* The code-to-text migration                                              *)
(***************************************************************************)

Window(lo, hi) == [lo |-> lo, hi |-> hi]

WinIds(w) == w.lo .. w.hi

\* MaxIdQuery with MIN in place of MAX
MaxIdQuery_Min(tbl) == IF DOMAIN tbl = {} THEN 0 ELSE Min(DOMAIN tbl)

\* SELECT COALESCE(MAX(id), 0) FROM "TransactionDetails"
MaxIdQuery(tbl) == IF DOMAIN tbl = {} THEN 0 ELSE Max(DOMAIN tbl)

\* BatchMin without the clamp to startId
BatchMin_NoClamp(curMax, startId, size) == curMax - size + 1

\* BatchMin without the + 1: windows of size + 1 keys
BatchMin_OffByOne(curMax, startId, size) ==
    IF curMax - size < startId THEN startId ELSE curMax - size

\* lower bound of the window whose upper bound is curMax
BatchMin(curMax, startId, size) ==
    IF curMax - size + 1 < startId THEN startId ELSE curMax - size + 1

\* NextMaxId stepping one key too far: a key is left out between two windows
NextMaxId_Gap(batchMin) == batchMin - 2

\* NextMaxId without the step down: the next window starts at the lower bound
\* of the window processed
NextMaxId_Stay(batchMin) == batchMin

\* upper bound of the next window: just below the window processed
NextMaxId(batchMin) == batchMin - 1

\* rows of SELECT id, code ... WHERE id >= lo AND id <= hi
RowsIn(tbl, lo, hi) == {i \in DOMAIN tbl : i >= lo /\ i <= hi}

isEmptyObject(raw) == raw = EmptyObject

isString(raw) == raw[1] = Quote /\ raw[Len(raw)] = Quote

\* RowAccepted without the isString branch: a quoted string is rejected
RowAccepted_EmptyObjectOnly(raw) ==
    \/ raw = SqlNull
    \/ isEmptyObject(raw)

\* RowAccepted without the code == nil skip: a NULL code is checked like a value
RowAccepted_NoNullSkip(raw) ==
    \/ isEmptyObject(raw)
    \/ (~isEmptyObject(raw) /\ isString(raw))

\* a row passes the check of the validation loop
RowAccepted(raw) ==
    \/ raw = SqlNull
    \/ isEmptyObject(raw)
    \/ (~isEmptyObject(raw) /\ isString(raw))

\* code #>> '{}' of a jsonb string: its text without the quotes
Unquote(raw) == SubSeq(raw, 2, Len(raw) - 1)

\* CASE WHEN code IS NULL OR code = '{}'::jsonb THEN NULL ELSE code #>> '{}' END
CodeText(raw) ==
    IF raw = SqlNull \/ raw = EmptyObject THEN SqlNull ELSE Unquote(raw)

\* the rows a statement over the window reads, with their code
RowsRead(tbl, lo, hi) == [i \in RowsIn(tbl, lo, hi) |-> tbl[i]]

\* the rows the set-based UPDATE writes inside the transaction
UpdateWrites(tbl, lo, hi) == [i \in RowsIn(tbl, lo, hi) |-> CodeText(tbl[i])]

\* ApplyWrites landing all of the transaction's writes but the one of its
\* lowest id
ApplyWrites_Partial(col, writes) ==
    [i \in DOMAIN col |->
        IF i \in DOMAIN writes /\ i # Min(DOMAIN writes) THEN writes[i] ELSE col[i]]

\* the table after the transaction's writes are committed
ApplyWrites(col, writes) ==
    [i \in DOMAIN col |-> IF i \in DOMAIN writes THEN writes[i] ELSE col[i]]

MigIdle ==
    /\ code = NoWrites /\ codetext = NoWrites /\ converted = {}
    /\ mpc = "idle" /\ mrun = 0 /\ batchSize = 0
    /\ maxTransactionID = 0 /\ currentMaxId = 0 /\ batchMinId = 0
    /\ totalProcessed = 0 /\ processed = 0
    /\ txOpen = {} /\ txWrites = NoWrites /\ abortId = 0
    /\ txReads = NoReads
    /\ lastProgressPrinted = -1 /\ prevProgressPrinted = -1
    /\ windows = <<>> /\ committedWins = <<>> /\ earlierIds = {} /\ mlog = <<>>

\* tables of few rows over a long range of ids with the window size they are
\* run at: 1001 ids in windows of 1 (each window covers less than 0.1 %),
\* 2000 ids in windows of 2 (each window covers exactly 0.1 %)
ProgressRuns == { <<1001, 1>>, <<2000, 2>> }

\* the locals of a run before updateCodeToText has done anything
MigFresh ==
    /\ maxTransactionID = 0 /\ currentMaxId = 0 /\ batchMinId = 0
    /\ totalProcessed = 0 /\ processed = 0
    /\ txOpen = {} /\ txWrites = NoWrites /\ abortId = 0
    /\ txReads = NoReads
    /\ lastProgressPrinted = -1 /\ prevProgressPrinted = -1
    /\ windows = <<>> /\ committedWins = <<>> /\ mlog = <<>>

SmallTables ==
    UNION {[ids -> RawValues] : ids \in SUBSET (1..MaxId)}

MigInit ==
    /\ \/ /\ code \in SmallTables
          /\ batchSize \in SmallBatchSizes \cup {codeBatchSize}
       \/ /\ code = [i \in E2EKeys |-> QuotedA]
          /\ batchSize = codeBatchSize
    /\ codetext = [i \in DOMAIN code |-> SqlNull]
    /\ converted = {}
    /\ mpc = "start" /\ mrun = 1 /\ earlierIds = {}
    /\ MigFresh

dbVars == <<code, codetext, converted>>

\* QueryMax without the maxTransactionID == 0 return: the loop is entered
QueryMax_NoEmptyCheck ==
    /\ UNCHANGED <<limVars, syncVars, monVars, toolVars>>
    /\ mpc = "start"
    /\ maxTransactionID' = MaxIdQuery(code)
    /\ mpc' = "loop"
    /\ currentMaxId' = MaxIdQuery(code)
    /\ mlog' = mlog
    /\ UNCHANGED <<progVars, dbVars, mrun, batchSize, batchMinId, totalProcessed, processed,
                   txOpen, txWrites, txReads, abortId, windows, committedWins, earlierIds>>

\* updateCodeToText: the query of the maximum id and the empty-table return
QueryMax ==
    /\ UNCHANGED <<limVars, syncVars, monVars, toolVars>>
    /\ mpc = "start"
    /\ maxTransactionID' = MaxIdQuery(code)
    /\ IF MaxIdQuery(code) = 0
          THEN /\ mpc' = "nothing"
               /\ mlog' = Append(mlog, <<"nothing to update">>)
               /\ UNCHANGED currentMaxId
          ELSE /\ mpc' = "loop"
               /\ currentMaxId' = MaxIdQuery(code)
               /\ mlog' = mlog
    /\ UNCHANGED <<progVars, dbVars, mrun, batchSize, batchMinId, totalProcessed, processed,
                   txOpen, txWrites, txReads, abortId, windows, committedWins, earlierIds>>

\* sql.Open, db.Ping or the MAX query fails: updateCodeToText returns the error
StartFail ==
    /\ UNCHANGED <<limVars, syncVars, monVars, toolVars>>
    /\ mpc = "start"
    /\ mpc' = "error"
    /\ UNCHANGED <<progVars, dbVars, mrun, batchSize, maxTransactionID, currentMaxId,
                   batchMinId, totalProcessed, processed, txOpen, txWrites, txReads,
                   abortId, windows, committedWins, earlierIds, mlog>>

\* loop head of processTransactionsBatchForCode and db.Begin of the window
BeginBatch ==
    /\ UNCHANGED <<limVars, syncVars, monVars, toolVars>>
    /\ mpc = "loop"
    /\ currentMaxId >= startTransactionIdForCode
    /\ LET lo == BatchMin(currentMaxId, startTransactionIdForCode, batchSize) IN
        /\ batchMinId' = lo
        /\ windows' = Append(windows, Window(lo, currentMaxId))
        /\ mlog' = Append(mlog, <<"begin", lo, currentMaxId>>)
        /\ txOpen' = txOpen \cup {Window(lo, currentMaxId)}
    /\ txWrites' = NoWrites
    /\ txReads' = NoReads
    /\ mpc' = "begun"
    /\ UNCHANGED <<progVars, dbVars, mrun, batchSize, maxTransactionID, currentMaxId,
                   totalProcessed, processed, abortId, committedWins, earlierIds>>

\* db.Begin fails: processBatchForCode returns the error, the loop returns it
BeginFail ==
    /\ UNCHANGED <<limVars, syncVars, monVars, toolVars>>
    /\ mpc = "loop"
    /\ currentMaxId >= startTransactionIdForCode
    /\ batchMinId' = BatchMin(currentMaxId, startTransactionIdForCode, batchSize)
    /\ mpc' = "error"
    /\ UNCHANGED <<progVars, dbVars, mrun, batchSize, maxTransactionID, currentMaxId,
                   totalProcessed, processed, txOpen, txWrites, txReads, abortId,
                   windows, committedWins, earlierIds, mlog>>

\* the loop condition fails: the final summary
LoopExit ==
    /\ UNCHANGED <<limVars, syncVars, monVars, toolVars>>
    /\ mpc = "loop"
    /\ currentMaxId < startTransactionIdForCode
    /\ mpc' = "done"
    /\ mlog' = Append(mlog, <<"completed", totalProcessed>>)
    /\ UNCHANGED <<progVars, dbVars, mrun, batchSize, maxTransactionID, currentMaxId,
                   batchMinId, totalProcessed, processed, txOpen, txWrites, txReads,
                   abortId, windows, committedWins, earlierIds>>

\* Fatal that logs and goes back to the loop (Printf for Fatalf): the deferred
\* rollback ends the transaction and the run goes on
Fatal_LogOnly ==
    /\ mpc' = "loop"
    /\ txOpen' = {}
    /\ txWrites' = NoWrites
    /\ UNCHANGED txReads

\* log.Fatalf: the process exits, the server rolls the open transaction back
Fatal ==
    /\ mpc' = "fatal"
    /\ txOpen' = {}
    /\ txWrites' = NoWrites
    /\ UNCHANGED txReads

\* ValidateBatch that logs a rejected row and goes on (Printf for Fatalf)
ValidateBatch_LogOnly ==
    /\ UNCHANGED <<limVars, syncVars, monVars, toolVars>>
    /\ mpc = "begun"
    /\ mpc' = "validated"
    /\ mlog' = Append(mlog, <<"validated", batchMinId, currentMaxId>>)
    /\ UNCHANGED <<progVars, dbVars, mrun, batchSize, maxTransactionID, currentMaxId,
                   batchMinId, totalProcessed, processed, windows,
                   committedWins, earlierIds, txOpen, txWrites, abortId>>
    /\ txReads' = [txReads EXCEPT !.validation = RowsRead(code, batchMinId, currentMaxId)]

\* the validation pass over the rows of the window, highest id first
ValidateBatch ==
    /\ UNCHANGED <<limVars, syncVars, monVars, toolVars>>
    /\ mpc = "begun"
    /\ LET rejected == {i \in RowsIn(code, batchMinId, currentMaxId) :
                            ~RowAccepted(code[i])} IN
        IF rejected = {}
           THEN /\ mpc' = "validated"
                /\ mlog' = Append(mlog, <<"validated", batchMinId, currentMaxId>>)
                /\ txReads' = [txReads EXCEPT !.validation =
                                    RowsRead(code, batchMinId, currentMaxId)]
                /\ UNCHANGED <<txOpen, txWrites, abortId>>
           ELSE /\ Fatal
                /\ abortId' = Max(rejected)
                /\ mlog' = Append(mlog, <<"abort", Max(rejected)>>)
    /\ UNCHANGED <<progVars, dbVars, mrun, batchSize, maxTransactionID, currentMaxId,
                   batchMinId, totalProcessed, processed, windows,
                   committedWins, earlierIds>>

\* the set-based UPDATE ... RETURNING id inside the transaction
UpdateBatch ==
    /\ UNCHANGED <<limVars, syncVars, monVars, toolVars>>
    /\ mpc = "validated"
    /\ txWrites' = UpdateWrites(code, batchMinId, currentMaxId)
    /\ txReads' = [txReads EXCEPT !.update = RowsRead(code, batchMinId, currentMaxId)]
    /\ processed' = Cardinality(DOMAIN UpdateWrites(code, batchMinId, currentMaxId))
    /\ mpc' = "updated"
    /\ mlog' = Append(mlog, <<"update", batchMinId, currentMaxId>>)
    /\ UNCHANGED <<progVars, dbVars, mrun, batchSize, maxTransactionID, currentMaxId,
                   batchMinId, totalProcessed, txOpen, abortId, windows,
                   committedWins, earlierIds>>

\* endId - startId + 1
totalTransactions == maxTransactionID - startTransactionIdForCode + 1

\* processedSpan: how many ids from the top are covered once the loop has
\* moved to newMax
ProcessedSpan(newMax) ==
    IF maxTransactionID - newMax > totalTransactions
       THEN totalTransactions
       ELSE maxTransactionID - newMax

\* Advance that is always "over": a progress line after every window
Advance_Always(span, last) == "over"

\* progressPercent - lastProgressPrinted compared with 0.1, for
\* progressPercent = span / totalTransactions * 100 and lastProgressPrinted =
\* last / totalTransactions * 100 (-1.0 before the first line): "over" and
\* "under" in exact arithmetic; at a difference of exactly 0.1 the rounding of
\* the float64 operations decides ("exact")
Advance(span, last) ==
    IF last = -1 THEN "over"
    ELSE IF (span - last) * 1000 > totalTransactions THEN "over"
    ELSE IF (span - last) * 1000 = totalTransactions THEN "exact"
    ELSE "under"

\* the throttled progress line at the end of a loop iteration
PrintProgress(newMax) ==
    \/ /\ Advance(ProcessedSpan(newMax), lastProgressPrinted) \in {"over", "exact"}
       /\ lastProgressPrinted' = ProcessedSpan(newMax)
       /\ prevProgressPrinted' = lastProgressPrinted
    \/ /\ Advance(ProcessedSpan(newMax), lastProgressPrinted) \in {"under", "exact"}
       /\ UNCHANGED progVars

\* CommitBatch without tx.Commit: the deferred rollback discards the writes
\* and the loop moves to the next window
CommitBatch_Forgot ==
    /\ UNCHANGED <<limVars, syncVars, monVars, toolVars>>
    /\ mpc = "updated"
    /\ txOpen' = txOpen \ {Window(batchMinId, currentMaxId)}
    /\ txWrites' = NoWrites
    /\ UNCHANGED txReads
    /\ totalProcessed' = totalProcessed + processed
    /\ currentMaxId' = NextMaxId(batchMinId)
    /\ PrintProgress(NextMaxId(batchMinId))
    /\ mpc' = "loop"
    /\ mlog' = mlog
    /\ UNCHANGED <<dbVars, mrun, batchSize, maxTransactionID, batchMinId,
                   processed, abortId, windows, committedWins, earlierIds>>

\* CommitBatch that commits on the connection pool instead of the transaction:
\* the writes land, the transaction of the window is never ended
CommitBatch_NoRelease ==
    /\ UNCHANGED <<limVars, syncVars, monVars, toolVars>>
    /\ mpc = "updated"
    /\ codetext' = ApplyWrites(codetext, txWrites)
    /\ converted' = converted \cup DOMAIN txWrites
    /\ txOpen' = txOpen
    /\ txWrites' = NoWrites
    /\ UNCHANGED txReads
    /\ committedWins' = Append(committedWins, Window(batchMinId, currentMaxId))
    /\ totalProcessed' = totalProcessed + processed
    /\ currentMaxId' = NextMaxId(batchMinId)
    /\ PrintProgress(NextMaxId(batchMinId))
    /\ mpc' = "loop"
    /\ mlog' = Append(mlog, <<"commit", batchMinId, currentMaxId>>)
    /\ UNCHANGED <<code, mrun, batchSize, maxTransactionID, batchMinId,
                   processed, abortId, windows, earlierIds>>

\* tx.Commit, the return to the loop and the move to the next window
CommitBatch ==
    /\ UNCHANGED <<limVars, syncVars, monVars, toolVars>>
    /\ mpc = "updated"
    /\ codetext' = ApplyWrites(codetext, txWrites)
    /\ converted' = converted \cup DOMAIN txWrites
    /\ txOpen' = txOpen \ {Window(batchMinId, currentMaxId)}
    /\ txWrites' = NoWrites
    /\ UNCHANGED txReads
    /\ committedWins' = Append(committedWins, Window(batchMinId, currentMaxId))
    /\ totalProcessed' = totalProcessed + processed
    /\ currentMaxId' = NextMaxId(batchMinId)
    /\ PrintProgress(NextMaxId(batchMinId))
    /\ mpc' = "loop"
    /\ mlog' = Append(mlog, <<"commit", batchMinId, currentMaxId>>)
    /\ UNCHANGED <<code, mrun, batchSize, maxTransactionID, batchMinId,
                   processed, abortId, windows, earlierIds>>

\* a database call of processBatchForCode fails (the SELECT, the UPDATE, the
\* iteration or the commit): log.Fatalf
DbCallFatal ==
    /\ UNCHANGED <<limVars, syncVars, monVars, toolVars>>
    /\ mpc \in {"begun", "validated", "updated"}
    /\ Fatal
    /\ mlog' = Append(mlog, <<"fatal">>)
    /\ UNCHANGED <<progVars, dbVars, mrun, batchSize, maxTransactionID, currentMaxId,
                   batchMinId, totalProcessed, processed, abortId, windows,
                   committedWins, earlierIds>>

\* the process is stopped from outside while the job runs
Kill ==
    /\ UNCHANGED <<limVars, syncVars, monVars, toolVars>>
    /\ mpc \in {"loop", "begun", "validated", "updated"}
    /\ mpc' = "killed"
    /\ txOpen' = {}
    /\ txWrites' = NoWrites
    /\ UNCHANGED txReads
    /\ UNCHANGED <<progVars, dbVars, mrun, batchSize, maxTransactionID, currentMaxId,
                   batchMinId, totalProcessed, processed, abortId, windows,
                   committedWins, earlierIds, mlog>>

MigStopped == {"nothing", "done", "fatal", "error", "killed"}

\* the command is run again: a new process, the same table
Rerun ==
    /\ UNCHANGED <<limVars, syncVars, monVars, toolVars>>
    /\ mpc \in MigStopped
    /\ mrun < MaxRuns
    /\ mrun' = mrun + 1
    /\ earlierIds' = earlierIds \cup UNION {WinIds(committedWins[k]) :
                                             k \in 1..Len(committedWins)}
    /\ mpc' = "start"
    /\ maxTransactionID' = 0 /\ currentMaxId' = 0 /\ batchMinId' = 0
    /\ totalProcessed' = 0 /\ processed' = 0
    /\ txOpen' = {} /\ txWrites' = NoWrites /\ abortId' = 0
    /\ txReads' = NoReads
    /\ lastProgressPrinted' = -1 /\ prevProgressPrinted' = -1
    /\ windows' = <<>> /\ committedWins' = <<>> /\ mlog' = <<>>
    /\ UNCHANGED <<dbVars, batchSize>>

\* another database client commits an INSERT or an UPDATE of a row of the
\* window while the window's transaction is open and before its UPDATE: the
\* transaction runs at the isolation level db.Begin gives it (the server's
\* default, read committed), where every statement sees what is committed when
\* it starts, and the validation SELECT takes no row lock
OtherClientWrites(i, raw) ==
    /\ UNCHANGED <<limVars, syncVars, monVars, toolVars>>
    /\ mpc \in {"begun", "validated"}
    /\ i \in batchMinId..currentMaxId
    /\ IF i \in DOMAIN code
          THEN /\ raw # code[i]
               /\ code' = [code EXCEPT ![i] = raw]
               /\ UNCHANGED codetext
          ELSE /\ code' = [j \in DOMAIN code \cup {i} |->
                              IF j = i THEN raw ELSE code[j]]
               /\ codetext' = [j \in DOMAIN code \cup {i} |->
                                  IF j = i THEN SqlNull ELSE codetext[j]]
    /\ UNCHANGED <<progVars, converted, mpc, mrun, batchSize, maxTransactionID,
                   currentMaxId, batchMinId, totalProcessed, processed, txOpen,
                   txWrites, txReads, abortId, windows, committedWins,
                   earlierIds, mlog>>

MigNext ==
    \/ QueryMax
    \/ StartFail
    \/ BeginBatch
    \/ BeginFail
    \/ LoopExit
    \/ ValidateBatch
    \/ UpdateBatch
    \/ CommitBatch
    \/ DbCallFatal
    \/ Kill
    \/ Rerun

(***************************************************************************)
(* limitFetch = pLimit(CONCURRENCY_LIMIT)                                  *)
(***************************************************************************)

\* AdmitCount comparing with <= in place of <: one task too many
AdmitCount_OffByOne(queued, active) ==
    IF active > CONCURRENCY_LIMIT THEN 0
    ELSE IF queued < CONCURRENCY_LIMIT + 1 - active THEN queued
    ELSE CONCURRENCY_LIMIT + 1 - active

\* tasks the limiter starts when tasks are handed to it: it starts queued
\* tasks while fewer than CONCURRENCY_LIMIT are in flight
AdmitCount(queued, active) ==
    IF active >= CONCURRENCY_LIMIT THEN 0
    ELSE IF queued < CONCURRENCY_LIMIT - active THEN queued
    ELSE CONCURRENCY_LIMIT - active

\* tasks the limiter starts when a task in flight has settled: the next one
NextCount(queued) == IF queued > 0 THEN 1 ELSE 0

LimIdle ==
    /\ lpc = "idle" /\ lfTotal = 0 /\ lfQueued = 0 /\ lfActive = 0
    /\ lfSettled = 0

LimInit ==
    /\ lpc = "map"
    /\ lfTotal \in 0..MaxTasks
    /\ lfQueued = 0 /\ lfActive = 0 /\ lfSettled = 0

\* rows.map(row => limitFetch(...)): every task is queued, then the limiter
\* starts the first ones
LfSubmit ==
    /\ UNCHANGED <<migVars, syncVars, monVars, toolVars>>
    /\ lpc = "map"
    /\ lfActive' = AdmitCount(lfTotal, 0)
    /\ lfQueued' = lfTotal - AdmitCount(lfTotal, 0)
    /\ lpc' = "all"
    /\ UNCHANGED <<lfTotal, lfSettled>>

\* a task in flight settles (it returns a result, or it caught its failure)
LfSettle ==
    /\ UNCHANGED <<migVars, syncVars, monVars, toolVars>>
    /\ lpc = "all"
    /\ lfActive > 0
    /\ lfSettled' = lfSettled + 1
    /\ lfActive' = lfActive - 1 + NextCount(lfQueued)
    /\ lfQueued' = lfQueued - NextCount(lfQueued)
    /\ UNCHANGED <<lpc, lfTotal>>

\* await Promise.all(fetchPromises) resumes with the K results
LfAll ==
    /\ UNCHANGED <<migVars, syncVars, monVars, toolVars>>
    /\ lpc = "all"
    /\ lfSettled = lfTotal
    /\ lpc' = "resolved"
    /\ UNCHANGED <<lfTotal, lfQueued, lfActive, lfSettled>>

LimNext ==
    \/ LfSubmit
    \/ LfSettle
    \/ LfAll

(***************************************************************************)
(* The balance reconciliation: syncBalances and syncRecentBalances         *)
(***************************************************************************)

\* what the node answers to a row's query: handleSingleQuery throws, returns
\* a result whose status is not 'success', or returns a successful result
Answers == {"throws", "failure", "success"}

\* the balance the node holds for the row
NodeBalance(id) == 10 * id

\* formatBalance_NODE: the scalar a query result is normalized to
formatBalance_NODE(ans, id) == IF ans = "success" THEN NodeBalance(id) ELSE 0

\* UpdatedBalance adding the value to the column: SET balance = balance + $1
UpdatedBalance_Add(old, value) == old + value

\* SET balance = $1: the value the UPDATE leaves in the column
UpdatedBalance(old, value) == value

\* ascending / descending listing of a set of ids
RECURSIVE Ascending(_)
Ascending(S) == IF S = {} THEN <<>> ELSE <<Min(S)>> \o Ascending(S \ {Min(S)})

RECURSIVE Descending(_)
Descending(S) == IF S = {} THEN <<>> ELSE <<Max(S)>> \o Descending(S \ {Max(S)})

\* BatchQuery with >= in place of >: the row at the cursor is fetched again
BatchQuery_Inclusive(ids, after, limit) ==
    LET all == Ascending({i \in ids : i >= after}) IN
        IF Len(all) <= limit THEN all ELSE SubSeq(all, 1, limit)

\* BatchQuery without the cursor: every query reads from the first row
BatchQuery_FromStart(ids, after, limit) ==
    LET all == Ascending(ids) IN
        IF Len(all) <= limit THEN all ELSE SubSeq(all, 1, limit)

\* SELECT ... WHERE b.id > $1 ORDER BY b.id LIMIT $2
BatchQuery(ids, after, limit) ==
    LET all == Ascending({i \in ids : i > after}) IN
        IF Len(all) <= limit THEN all ELSE SubSeq(all, 1, limit)

\* SELECT ... WHERE "updatedAt" > NOW() - INTERVAL AND "hasTokenId" = false
\* ORDER BY "updatedAt" DESC.  The table keeps no timestamps, only whether
\* updatedAt lies inside the lookback interval; the rows are listed by
\* descending id.
RecentQuery(ids) == Descending({i \in ids : recent[i] /\ ~hasTokenId[i]})

IndexOf(seq, id) == CHOOSE k \in 1..Len(seq) : seq[k] = id

\* StartStage without the hasTokenId return: every task queries the node
StartStage_QueryAll(id) == "query"

\* where a task stands after the limiter started it: the async function runs
\* to its first await, which in syncBalances a row with a token id never
\* reaches
StartStage(id) ==
    IF variant = "full" /\ hasTokenId[id] THEN "return" ELSE "query"

\* the queries the tasks of these rows send when the limiter starts them
Queries(started) == SelectSeq(started, LAMBDA i : StartStage(i) = "query")

\* the task of row id settles: the limiter starts the next queued task
SettleTask(id) ==
    LET n == NextCount(Len(queue))
        started == {queue[k] : k \in 1..n} IN
        /\ queue' = SubSeq(queue, n + 1, Len(queue))
        /\ stage' = [i \in DOMAIN stage |->
                        IF i = id THEN "done"
                        ELSE IF i \in started THEN StartStage(i) ELSE stage[i]]
        /\ queried' = queried \o Queries(SubSeq(queue, 1, n))

\* rows.map(row => limitFetch(...)) over the rows of a query result
SubmitRows(sel) ==
    LET n == AdmitCount(Len(sel), 0)
        started == {sel[k] : k \in 1..n} IN
        /\ rows' = sel
        /\ queue' = SubSeq(sel, n + 1, Len(sel))
        /\ stage' = [i \in {sel[k] : k \in 1..Len(sel)} |->
                        IF i \in started THEN StartStage(i) ELSE "queued"]
        /\ queried' = queried \o Queries(SubSeq(sel, 1, n))
        /\ results' = <<>>

NoSnapshot == [taken |-> FALSE, done |-> FALSE, faulted |-> FALSE, balance |-> <<>>]

SyncIdle ==
    /\ hasTokenId = <<>> /\ balance = <<>> /\ recent = <<>> /\ answer = <<>>
    /\ variant = "none" /\ spc = "idle" /\ srun = 0 /\ batchLimit = 0
    /\ currentId = 0 /\ syncProcessed = 0 /\ totalUpdated = 0
    /\ successCount = 0 /\ errorCount = 0
    /\ rows = <<>> /\ queue = <<>> /\ stage = <<>> /\ results = <<>>
    /\ updIdx = 0 /\ touched = {} /\ queried = <<>> /\ batches = <<>>
    /\ dbFaults = 0 /\ runFaulted = FALSE /\ firstRun = NoSnapshot
    /\ inserted = {}

SyncInit ==
    /\ \E n \in 0..MaxRows :
          /\ hasTokenId \in [1..n -> BOOLEAN]
          /\ answer \in [1..n -> Answers]
          /\ recent \in [1..n -> BOOLEAN]
          /\ balance = [i \in 1..n |-> 1]
    \* a row with a token id is never queried: one answer stands for all
    /\ \A i \in DOMAIN answer : hasTokenId[i] => answer[i] = "success"
    /\ \/ /\ variant = "full"
          /\ batchLimit \in SmallLimits \cup {BATCH_SIZE}
          /\ \A i \in DOMAIN recent : ~recent[i]
       \/ /\ variant = "recent"
          /\ batchLimit = BATCH_SIZE
    /\ spc = "start" /\ srun = 1
    /\ currentId = 0 /\ syncProcessed = 0 /\ totalUpdated = 0
    /\ successCount = 0 /\ errorCount = 0
    /\ rows = <<>> /\ queue = <<>> /\ stage = <<>> /\ results = <<>>
    /\ updIdx = 0 /\ touched = {} /\ queried = <<>> /\ batches = <<>>
    /\ dbFaults = 0 /\ runFaulted = FALSE /\ firstRun = NoSnapshot
    /\ inserted = {}

tableVars == <<hasTokenId, balance, recent, inserted, answer>>

\* syncBalances: the batch query returns; an empty batch ends the job
FetchBatch ==
    /\ UNCHANGED <<migVars, limVars, monVars, toolVars>>
    /\ spc = "start" /\ variant = "full"
    /\ LET sel == BatchQuery(DOMAIN balance, currentId, batchLimit) IN
        IF Len(sel) = 0
           THEN /\ spc' = "done"
                /\ UNCHANGED <<rows, queue, stage, results, queried, batches>>
           ELSE /\ spc' = "fetching"
                /\ SubmitRows(sel)
                /\ batches' = Append(batches, sel)
    /\ UNCHANGED <<tableVars, variant, srun, batchLimit, currentId,
                   syncProcessed, totalUpdated, successCount, errorCount,
                   updIdx, touched, dbFaults, runFaulted, firstRun>>

\* syncRecentBalances: the query of the recently modified rows returns
SelectRecent ==
    /\ UNCHANGED <<migVars, limVars, monVars, toolVars>>
    /\ spc = "start" /\ variant = "recent"
    /\ LET sel == RecentQuery(DOMAIN balance) IN
        IF Len(sel) = 0
           THEN /\ spc' = "done"
                /\ UNCHANGED <<rows, queue, stage, results, queried, batches>>
           ELSE /\ spc' = "fetching"
                /\ SubmitRows(sel)
                /\ batches' = Append(batches, sel)
    /\ UNCHANGED <<tableVars, variant, srun, batchLimit, currentId,
                   syncProcessed, totalUpdated, successCount, errorCount,
                   updIdx, touched, dbFaults, runFaulted, firstRun>>

\* the SELECT of either job throws: the job's promise rejects
SelectFail ==
    /\ UNCHANGED <<migVars, limVars, monVars, toolVars>>
    /\ spc = "start"
    /\ dbFaults < MaxDbFaults
    /\ dbFaults' = dbFaults + 1
    /\ runFaulted' = TRUE
    /\ spc' = "selectFailed"
    /\ UNCHANGED <<tableVars, variant, srun, batchLimit, currentId,
                   syncProcessed, totalUpdated, successCount, errorCount,
                   rows, queue, stage, results, updIdx, touched, queried,
                   batches, firstRun>>

\* ResultSlot in the order the tasks settle
ResultSlot_Completion(id) == Cardinality(DOMAIN results) + 1

\* Promise.all: where the value a row's task resolves to is put in results
ResultSlot(id) == IndexOf(rows, id)

\* syncBalances: the task of a row with a token id returns its skip marker
TokenReturn(id) ==
    /\ UNCHANGED <<migVars, limVars, monVars, toolVars>>
    /\ spc = "fetching" /\ variant = "full"
    /\ id \in DOMAIN stage /\ stage[id] = "return"
    /\ results' = [k \in DOMAIN results \cup {ResultSlot(id)} |->
                      IF k = ResultSlot(id)
                         THEN [id |-> id, balance |-> 0, skipped |-> TRUE]
                         ELSE results[k]]
    /\ SettleTask(id)
    /\ UNCHANGED <<tableVars, variant, spc, srun, batchLimit, currentId,
                   syncProcessed, totalUpdated, successCount, errorCount,
                   rows, updIdx, touched, batches, dbFaults, runFaulted,
                   firstRun>>

\* FetchResult whose catch returns skipped: false
FetchResult_NoSkip(id) ==
    IF answer[id] = "throws"
       THEN [id |-> id, balance |-> 0, skipped |-> FALSE]
       ELSE [id |-> id, balance |-> formatBalance_NODE(answer[id], id),
             skipped |-> FALSE]

\* what the task of syncBalances resolves to when the node has answered
FetchResult(id) ==
    IF answer[id] = "throws"
       THEN [id |-> id, balance |-> 0, skipped |-> TRUE]
       ELSE [id |-> id, balance |-> formatBalance_NODE(answer[id], id),
             skipped |-> FALSE]

\* syncBalances: handleSingleQuery of a row returns or throws
FullOracleAnswers(id) ==
    /\ UNCHANGED <<migVars, limVars, monVars, toolVars>>
    /\ spc = "fetching" /\ variant = "full"
    /\ id \in DOMAIN stage /\ stage[id] = "query"
    /\ results' = [k \in DOMAIN results \cup {ResultSlot(id)} |->
                      IF k = ResultSlot(id) THEN FetchResult(id)
                      ELSE results[k]]
    /\ SettleTask(id)
    /\ UNCHANGED <<tableVars, variant, spc, srun, batchLimit, currentId,
                   syncProcessed, totalUpdated, successCount, errorCount,
                   rows, updIdx, touched, batches, dbFaults, runFaulted,
                   firstRun>>

\* syncRecentBalances: the task goes on to its UPDATE after this answer
RecentAccepts(ans) == ans = "success"

\* RecentOracleAnswers sending the query a second time when the first answer
\* is not a success
RecentOracleAnswers_Retry(id) ==
    /\ UNCHANGED <<migVars, limVars, monVars, toolVars>>
    /\ spc = "fetching" /\ variant = "recent"
    /\ id \in DOMAIN stage /\ stage[id] = "query"
    /\ IF RecentAccepts(answer[id])
          THEN /\ stage' = [stage EXCEPT ![id] = "update"]
               /\ UNCHANGED <<errorCount, queue, queried>>
          ELSE IF Len(SelectSeq(queried, LAMBDA i : i = id)) < 2
          THEN /\ queried' = Append(queried, id)
               /\ UNCHANGED <<errorCount, queue, stage>>
          ELSE /\ errorCount' = errorCount + 1
               /\ SettleTask(id)
    /\ UNCHANGED <<tableVars, variant, spc, srun, batchLimit, currentId,
                   syncProcessed, totalUpdated, successCount, rows, results,
                   updIdx, touched, batches, dbFaults, runFaulted, firstRun>>

\* syncRecentBalances: handleSingleQuery of a row returns or throws
RecentOracleAnswers(id) ==
    /\ UNCHANGED <<migVars, limVars, monVars, toolVars>>
    /\ spc = "fetching" /\ variant = "recent"
    /\ id \in DOMAIN stage /\ stage[id] = "query"
    /\ IF RecentAccepts(answer[id])
          THEN /\ stage' = [stage EXCEPT ![id] = "update"]
               /\ UNCHANGED <<errorCount, queue, queried>>
          ELSE /\ errorCount' = errorCount + 1
               /\ SettleTask(id)
    /\ UNCHANGED <<tableVars, variant, spc, srun, batchLimit, currentId,
                   syncProcessed, totalUpdated, successCount, rows, results,
                   updIdx, touched, batches, dbFaults, runFaulted, firstRun>>

\* UPDATE "Balances" SET balance = $1, "updatedAt" = NOW() WHERE id = $2
WriteBalance(id, value) ==
    /\ balance' = [balance EXCEPT ![id] = UpdatedBalance(balance[id], value)]
    /\ recent' = [recent EXCEPT ![id] = TRUE]
    /\ touched' = touched \cup {id}

\* syncRecentBalances: the UPDATE of a row returns
RecentUpdateReturns(id) ==
    /\ UNCHANGED <<migVars, limVars, monVars, toolVars>>
    /\ spc = "fetching" /\ variant = "recent"
    /\ id \in DOMAIN stage /\ stage[id] = "update"
    /\ WriteBalance(id, formatBalance_NODE(answer[id], id))
    /\ successCount' = successCount + 1
    /\ SettleTask(id)
    /\ UNCHANGED <<hasTokenId, inserted, answer, variant, spc, srun, batchLimit,
                   currentId, syncProcessed, totalUpdated, errorCount, rows,
                   results, updIdx, batches, dbFaults, runFaulted, firstRun>>

\* RecentUpdateFails whose catch only logs: the failed row is not counted
RecentUpdateFails_Uncounted(id) ==
    /\ UNCHANGED <<migVars, limVars, monVars, toolVars>>
    /\ spc = "fetching" /\ variant = "recent"
    /\ id \in DOMAIN stage /\ stage[id] = "update"
    /\ dbFaults < MaxDbFaults
    /\ dbFaults' = dbFaults + 1
    /\ runFaulted' = TRUE
    /\ SettleTask(id)
    /\ UNCHANGED <<tableVars, variant, spc, srun, batchLimit, currentId,
                   syncProcessed, totalUpdated, successCount, errorCount, rows,
                   results, updIdx, touched, batches, firstRun>>

\* syncRecentBalances: the UPDATE of a row throws, the task's catch counts it
RecentUpdateFails(id) ==
    /\ UNCHANGED <<migVars, limVars, monVars, toolVars>>
    /\ spc = "fetching" /\ variant = "recent"
    /\ id \in DOMAIN stage /\ stage[id] = "update"
    /\ dbFaults < MaxDbFaults
    /\ dbFaults' = dbFaults + 1
    /\ runFaulted' = TRUE
    /\ errorCount' = errorCount + 1
    /\ SettleTask(id)
    /\ UNCHANGED <<tableVars, variant, spc, srun, batchLimit, currentId,
                   syncProcessed, totalUpdated, successCount, rows, results,
                   updIdx, touched, batches, firstRun>>

AllTasksSettled == \A i \in DOMAIN stage : stage[i] = "done"

\* await Promise.all(fetchPromises) resumes
AllSettled ==
    /\ UNCHANGED <<migVars, limVars, monVars, toolVars>>
    /\ spc = "fetching"
    /\ AllTasksSettled
    /\ IF variant = "full"
          THEN spc' = "updating" /\ updIdx' = 1
          ELSE spc' = "done" /\ UNCHANGED updIdx
    /\ UNCHANGED <<tableVars, variant, srun, batchLimit, currentId,
                   syncProcessed, totalUpdated, successCount, errorCount,
                   rows, queue, stage, results, touched, queried, batches,
                   dbFaults, runFaulted, firstRun>>

\* indexes of the results the update loop has still to write
PendingUpdates == {k \in updIdx..Len(rows) : ~results[k].skipped}

\* NextPending taking the results from the end
NextPending_Last(pending) == Max(pending)

\* the result the update loop writes next: for (const result of results)
NextPending(pending) == Min(pending)

\* syncBalances: the UPDATE of the next result that is not skipped returns
ApplyUpdate ==
    /\ UNCHANGED <<migVars, limVars, monVars, toolVars>>
    /\ spc = "updating"
    /\ PendingUpdates # {}
    /\ LET k == NextPending(PendingUpdates) IN
        /\ WriteBalance(results[k].id, results[k].balance)
        /\ updIdx' = k + 1
    /\ totalUpdated' = totalUpdated + 1
    /\ UNCHANGED <<hasTokenId, inserted, answer, variant, spc, srun, batchLimit,
                   currentId, syncProcessed, successCount, errorCount, rows,
                   queue, stage, results, queried, batches, dbFaults,
                   runFaulted, firstRun>>

\* syncBalances: that UPDATE throws: the job's promise rejects
ApplyUpdateFail ==
    /\ UNCHANGED <<migVars, limVars, monVars, toolVars>>
    /\ spc = "updating"
    /\ PendingUpdates # {}
    /\ dbFaults < MaxDbFaults
    /\ dbFaults' = dbFaults + 1
    /\ runFaulted' = TRUE
    /\ updIdx' = NextPending(PendingUpdates)
    /\ spc' = "updateFailed"
    /\ UNCHANGED <<tableVars, variant, srun, batchLimit, currentId,
                   syncProcessed, totalUpdated, successCount, errorCount,
                   rows, queue, stage, results, touched, queried, batches,
                   firstRun>>

\* FinishBatch adding the rows it updated, not the rows it fetched, to
\* totalProcessed
FinishBatch_CountsUpdated ==
    /\ UNCHANGED <<migVars, limVars, monVars, toolVars>>
    /\ spc = "updating"
    /\ PendingUpdates = {}
    /\ syncProcessed' = syncProcessed
                           + Cardinality({k \in 1..Len(rows) : ~results[k].skipped})
    /\ currentId' = rows[Len(rows)]
    /\ spc' = "start"
    /\ updIdx' = 0
    /\ UNCHANGED <<tableVars, variant, srun, batchLimit, totalUpdated,
                   successCount, errorCount, rows, queue, stage, results,
                   touched, queried, batches, dbFaults, runFaulted, firstRun>>

\* syncBalances: the update loop is through: counters, cursor, next batch
FinishBatch ==
    /\ UNCHANGED <<migVars, limVars, monVars, toolVars>>
    /\ spc = "updating"
    /\ PendingUpdates = {}
    /\ syncProcessed' = syncProcessed + Len(rows)
    /\ currentId' = rows[Len(rows)]
    /\ spc' = "start"
    /\ updIdx' = 0
    /\ UNCHANGED <<tableVars, variant, srun, batchLimit, totalUpdated,
                   successCount, errorCount, rows, queue, stage, results,
                   touched, queried, batches, dbFaults, runFaulted, firstRun>>

\* another client inserts a row into "Balances" while syncBalances runs: the
\* serial primary key gives it the id above every existing id
InsertRow ==
    /\ UNCHANGED <<migVars, limVars, monVars, toolVars>>
    /\ variant = "full"
    /\ spc \in {"start", "fetching", "updating"}
    /\ Cardinality(inserted) < MaxInserts
    /\ \E tok \in BOOLEAN :
          /\ hasTokenId' = Append(hasTokenId, tok)
          /\ answer' = Append(answer, "success")
    /\ balance' = Append(balance, 1)
    /\ recent' = Append(recent, TRUE)
    /\ inserted' = inserted \cup {Len(balance) + 1}
    /\ UNCHANGED <<variant, spc, srun, batchLimit, currentId, syncProcessed,
                   totalUpdated, successCount, errorCount, rows, queue, stage,
                   results, updIdx, touched, queried, batches, dbFaults,
                   runFaulted, firstRun>>

SyncStopped == {"done", "selectFailed", "updateFailed"}

\* the job is run again over the same table against the same node; between
\* the runs rows may leave the lookback interval
SyncRerun ==
    /\ UNCHANGED <<migVars, limVars, monVars, toolVars>>
    /\ spc \in SyncStopped
    /\ srun < MaxRuns
    /\ srun' = srun + 1
    /\ firstRun' = IF srun = 1
                      THEN [taken |-> TRUE, done |-> spc = "done",
                            faulted |-> runFaulted, balance |-> balance]
                      ELSE firstRun
    /\ IF variant = "recent"
          THEN recent' \in {f \in [DOMAIN recent -> BOOLEAN] :
                               \A i \in DOMAIN recent : f[i] => recent[i]}
          ELSE recent' = recent
    /\ spc' = "start"
    /\ currentId' = 0 /\ syncProcessed' = 0 /\ totalUpdated' = 0
    /\ successCount' = 0 /\ errorCount' = 0
    /\ rows' = <<>> /\ queue' = <<>> /\ stage' = <<>> /\ results' = <<>>
    /\ updIdx' = 0 /\ touched' = {} /\ queried' = <<>> /\ batches' = <<>>
    /\ runFaulted' = FALSE
    /\ UNCHANGED <<hasTokenId, balance, inserted, answer, variant, batchLimit,
                   dbFaults>>

SyncNext ==
    \/ FetchBatch
    \/ SelectRecent
    \/ SelectFail
    \/ \E id \in DOMAIN balance : TokenReturn(id)
    \/ \E id \in DOMAIN balance : FullOracleAnswers(id)
    \/ \E id \in DOMAIN balance : RecentOracleAnswers(id)
    \/ \E id \in DOMAIN balance : RecentUpdateReturns(id)
    \/ \E id \in DOMAIN balance : RecentUpdateFails(id)
    \/ AllSettled
    \/ ApplyUpdate
    \/ ApplyUpdateFail
    \/ FinishBatch
    \/ SyncRerun

SyncStart == MigIdle /\ LimIdle /\ SyncInit /\ MonIdle /\ ToolIdle

SyncSpec == SyncStart /\ [][SyncNext]_vars

\* syncBalances on its own, with other clients inserting rows while it runs
ScanStart == SyncStart /\ variant = "full"

ScanNext ==
    \/ FetchBatch
    \/ SelectFail
    \/ \E id \in DOMAIN balance : TokenReturn(id)
    \/ \E id \in DOMAIN balance : FullOracleAnswers(id)
    \/ AllSettled
    \/ ApplyUpdate
    \/ ApplyUpdateFail
    \/ FinishBatch
    \/ InsertRow

ScanSpec == ScanStart /\ [][ScanNext]_vars

\* syncBalances while no row is inserted and no database call fails
TerminationNext ==
    \/ FetchBatch
    \/ \E id \in DOMAIN balance : TokenReturn(id)
    \/ \E id \in DOMAIN balance : FullOracleAnswers(id)
    \/ AllSettled
    \/ ApplyUpdate
    \/ FinishBatch

\* every query of the node and every database call returns, and the event
\* loop runs every continuation that is ready
TerminationSpec ==
    /\ ScanStart
    /\ [][TerminationNext]_vars
    /\ WF_vars(TerminationNext)

LimitStart == MigIdle /\ LimInit /\ SyncIdle /\ MonIdle /\ ToolIdle

LimitSpec == LimitStart /\ [][LimNext]_vars

\* the node client answers or fails every query (it never hangs), and the
\* event loop runs every callback that is ready
LimitFairSpec ==
    /\ LimitSpec
    /\ WF_vars(LfSubmit)
    /\ WF_vars(LfSettle)
    /\ WF_vars(LfAll)

NoJob == ""

JobNames == {"code-to-text", "creation-time", "reconcile"}

\* values of -command: the default, the three jobs, something else
Commands == JobNames \cup {"", "bogus"}

\* the switch of main: the job a command calls
JobFor(cmd) == IF cmd \in JobNames THEN cmd ELSE NoJob

\* ExitStatus of a process whose fatal errors are only logged
ExitStatus_Zero(end) == 0

\* exit status: main returns after a complete job, log.Fatalf exits with 1
ExitStatus(end) == IF end = "complete" THEN 0 ELSE 1

\* one invocation of the db-migrator over a small table
DbMigratorInit ==
    /\ command \in Commands
    /\ cpc = "main" /\ jobsRun = <<>> /\ jobEnd = "" /\ exitCode = NoExit
    /\ available = {} /\ disabled = {} /\ rpc = "idle" /\ argv = <<>>
    /\ tempDirs = {}
    /\ migrations = <<>> /\ runIndex = 0 /\ ran = <<>>
    /\ rangeSuccessCount = 0 /\ failedAt = 0 /\ rlog = <<>>
    /\ code \in SmallTables
    /\ batchSize = codeBatchSize
    /\ codetext = [i \in DOMAIN code |-> SqlNull]
    /\ converted = {}
    /\ mpc = "idle" /\ mrun = 1 /\ earlierIds = {}
    /\ MigFresh

\* main: no command and an unknown command are fatal, a known one calls its job
Main ==
    /\ UNCHANGED <<limVars, syncVars, monVars, runVars>>
    /\ cpc = "main"
    /\ IF JobFor(command) = NoJob
          THEN /\ cpc' = "exited"
               /\ exitCode' = ExitStatus("fatal")
               /\ UNCHANGED <<jobsRun, mpc>>
          ELSE /\ cpc' = "job"
               /\ jobsRun' = Append(jobsRun, JobFor(command))
               /\ mpc' = IF JobFor(command) = "code-to-text" THEN "start" ELSE mpc
               /\ UNCHANGED exitCode
    /\ UNCHANGED <<command, jobEnd>>
    /\ UNCHANGED <<progVars, dbVars, mrun, batchSize, maxTransactionID,
                   currentMaxId, batchMinId, totalProcessed, processed, txOpen,
                   txWrites, txReads, abortId, windows, committedWins, earlierIds, mlog>>

\* the code-to-text job has ended: updateCodeToText returned nil and main
\* returns, or log.Fatalf has ended the process
CodeToTextEnds ==
    /\ UNCHANGED <<migVars, limVars, syncVars, monVars, runVars>>
    /\ cpc = "job" /\ jobsRun = <<"code-to-text">>
    /\ mpc \in {"done", "nothing", "error", "fatal"}
    /\ jobEnd' = IF mpc \in {"done", "nothing"} THEN "complete" ELSE "fatal"
    /\ exitCode' = ExitStatus(IF mpc \in {"done", "nothing"}
                                THEN "complete" ELSE "fatal")
    /\ cpc' = "exited"
    /\ UNCHANGED <<command, jobsRun>>

\* one of the other two jobs has ended, completely or in a fatal error
OtherJobEnds ==
    /\ UNCHANGED <<migVars, limVars, syncVars, monVars, runVars>>
    /\ cpc = "job" /\ jobsRun # <<"code-to-text">>
    /\ \E end \in {"complete", "fatal"} :
          /\ jobEnd' = end
          /\ exitCode' = ExitStatus(end)
    /\ cpc' = "exited"
    /\ UNCHANGED <<command, jobsRun>>

DbMigratorNext ==
    \/ Main
    \/ CodeToTextEnds
    \/ OtherJobEnds
    \/ QueryMax
    \/ StartFail
    \/ BeginBatch
    \/ BeginFail
    \/ LoopExit
    \/ ValidateBatch
    \/ UpdateBatch
    \/ CommitBatch
    \/ DbCallFatal

DbMigratorStart == DbMigratorInit /\ LimIdle /\ SyncIdle /\ MonIdle

DbMigratorSpec == DbMigratorStart /\ [][DbMigratorNext]_vars

(***************************************************************************)
(* run-single-migration.js                                                 *)
(***************************************************************************)

\* names of migration files, in the order sort() gives them
Files == 1..MaxFiles

\* fs.readdirSync(MIGRATIONS_DIR).filter(f => f.endsWith('.js')).sort()
getAvailableMigrations == Ascending(available)

getDisabledMigrations == Ascending(disabled)

\* an argument that is a range, a number or a filename
RangeArg(a, b) == [kind |-> "range", a |-> a, b |-> b]

NumberArg(n) == [kind |-> "number", a |-> n, b |-> 0]

NameArg(f) == [kind |-> "name", a |-> f, b |-> 0]

\* arguments given to disable and enable
FileArgs ==
    {NumberArg(n) : n \in 0..(MaxFiles + 1)} \cup {NameArg(f) : f \in Files}

\* the filename an argument stands for, NoFile where the process exits
resolveToFilename(input, fromDisabled) ==
    IF input.kind = "number"
       THEN LET index == input.a - 1
                list == IF fromDisabled THEN getDisabledMigrations
                        ELSE getAvailableMigrations
            IN  IF index < 0 \/ index >= Len(list) THEN NoFile
                ELSE list[index + 1]
       ELSE input.a

Dirs == [available |-> available, disabled |-> disabled]

\* what is kept of an invocation that has ended
Invocation(cmd, input, filename, done, count, failed, hint, status, after) ==
    [command |-> cmd, arg |-> input, filename |-> filename, ran |-> done,
     successCount |-> count, failedAt |-> failed, hint |-> hint,
     exit |-> status, before |-> Dirs, after |-> after]

\* the history after a disable or an enable
Logged(entry) ==
    IF rlog # <<>> /\ rlog[Len(rlog)].command # "run"
       THEN <<rlog[Len(rlog)], entry>>
       ELSE <<entry>>

RunnerIdleLocals ==
    /\ argv = <<>> /\ migrations = <<>> /\ runIndex = 0 /\ ran = <<>>
    /\ rangeSuccessCount = 0 /\ failedAt = 0

RunnerInit ==
    /\ command = "" /\ cpc = "idle" /\ jobsRun = <<>> /\ jobEnd = ""
    /\ exitCode = NoExit
    /\ available \in SUBSET Files
    /\ disabled \in SUBSET (Files \ available)
    /\ rpc = "shell" /\ rlog = <<>>
    /\ tempDirs = {}
    /\ RunnerIdleLocals

\* start < 1 || end > migrations.length || start > end
InvalidRange(start, end, length) == start < 1 \/ end > length \/ start > end

\* 'run a-b' up to the loop: an invalid range ends the process
RunRange(a, b) ==
    /\ UNCHANGED <<migVars, limVars, syncVars, monVars, cliVars>>
    /\ UNCHANGED tempDirs
    /\ rpc = "shell"
    /\ IF InvalidRange(a, b, Len(getAvailableMigrations))
          THEN /\ rlog' = << Invocation("run", RangeArg(a, b), NoFile, <<>>,
                                       0, 0, <<>>, 1, Dirs) >>
               /\ UNCHANGED <<rpc, argv, migrations, runIndex, ran,
                              rangeSuccessCount, failedAt>>
          ELSE /\ rpc' = "range"
               /\ argv' = [command |-> "run", arg |-> RangeArg(a, b)]
               /\ migrations' = getAvailableMigrations
               /\ runIndex' = a
               /\ ran' = <<>>
               /\ rangeSuccessCount' = 0
               /\ failedAt' = 0
               /\ rlog' = <<>>
    /\ UNCHANGED <<available, disabled>>

\* LoopGoesOn without the break after a failure
LoopGoesOn_NoBreak == runIndex <= argv.arg.b

\* for (let i = start; i <= end; i++) with its break
LoopGoesOn == failedAt = 0 /\ runIndex <= argv.arg.b

\* fs.mkdtempSync: a directory under a name no existing directory has
Mkdtemp(dirs) == IF dirs = {} THEN 1 ELSE Max(dirs) + 1

\* fs.rmSync(tempDir, { recursive: true, force: true })
RmSync(dirs, dir) == dirs \ {dir}

\* runSingleMigration from its mkdtempSync to its return: the finally block
\* runs after the try block and after the catch block
TempDirsAfterRun(dirs) == RmSync(dirs \cup {Mkdtemp(dirs)}, Mkdtemp(dirs))

\* one pass of the loop: runSingleMigration returns true or false
RunSingleMigration(ok) ==
    /\ UNCHANGED <<migVars, limVars, syncVars, monVars, cliVars>>
    /\ rpc = "range"
    /\ LoopGoesOn
    /\ LET filename == migrations[runIndex]
           success == ok /\ filename \in available
       IN  /\ ran' = IF filename \in available
                        THEN Append(ran, [file |-> filename, ok |-> ok])
                        ELSE ran
           /\ tempDirs' = IF filename \in available
                             THEN TempDirsAfterRun(tempDirs)
                             ELSE tempDirs
           /\ IF success
                 THEN /\ rangeSuccessCount' = rangeSuccessCount + 1
                      /\ runIndex' = runIndex + 1
                      /\ UNCHANGED failedAt
                 ELSE /\ failedAt' = runIndex
                      /\ UNCHANGED <<rangeSuccessCount, runIndex>>
    /\ UNCHANGED <<available, disabled, rpc, argv, migrations, rlog>>

\* after the loop: the summary, the continue hint and process.exit(1) after
\* a failure
RangeSummary ==
    /\ UNCHANGED <<migVars, limVars, syncVars, monVars, cliVars>>
    /\ UNCHANGED tempDirs
    /\ rpc = "range"
    /\ ~LoopGoesOn
    /\ rlog' = << Invocation("run", argv.arg, NoFile, ran,
                            rangeSuccessCount, failedAt,
                            IF failedAt # 0 THEN <<failedAt, argv.arg.b>>
                            ELSE <<>>,
                            IF failedAt # 0 THEN 1 ELSE 0, Dirs) >>
    /\ rpc' = "shell"
    /\ argv' = <<>> /\ migrations' = <<>> /\ runIndex' = 0 /\ ran' = <<>>
    /\ rangeSuccessCount' = 0 /\ failedAt' = 0
    /\ UNCHANGED <<available, disabled>>

\* disableMigration copying the file instead of renaming it
DisableMigration_Copy(input) ==
    /\ UNCHANGED <<migVars, limVars, syncVars, monVars, cliVars>>
    /\ UNCHANGED tempDirs
    /\ rpc = "shell"
    /\ LET filename == resolveToFilename(input, FALSE) IN
        IF filename = NoFile \/ filename \notin available
           THEN /\ rlog' = Logged(Invocation("disable", input, filename, <<>>,
                                             0, 0, <<>>, 1, Dirs))
                /\ UNCHANGED <<available, disabled>>
           ELSE /\ disabled' = disabled \cup {filename}
                /\ available' = available
                /\ rlog' = Logged(Invocation("disable", input, filename, <<>>,
                                             0, 0, <<>>, 0,
                                             [available |-> available,
                                              disabled |-> disabled \cup {filename}]))
    /\ UNCHANGED <<rpc, argv, migrations, runIndex, ran, rangeSuccessCount,
                   failedAt>>

\* 'disable <number|filename>'
disableMigration(input) ==
    /\ UNCHANGED <<migVars, limVars, syncVars, monVars, cliVars>>
    /\ UNCHANGED tempDirs
    /\ rpc = "shell"
    /\ LET filename == resolveToFilename(input, FALSE) IN
        IF filename = NoFile \/ filename \notin available
           THEN /\ rlog' = Logged(Invocation("disable", input, filename, <<>>,
                                             0, 0, <<>>, 1, Dirs))
                /\ UNCHANGED <<available, disabled>>
           ELSE /\ available' = available \ {filename}
                /\ disabled' = disabled \cup {filename}
                /\ rlog' = Logged(Invocation("disable", input, filename, <<>>,
                                             0, 0, <<>>, 0,
                                             [available |-> available \ {filename},
                                              disabled |-> disabled \cup {filename}]))
    /\ UNCHANGED <<rpc, argv, migrations, runIndex, ran, rangeSuccessCount,
                   failedAt>>

\* 'enable <number|filename>', a number counting in the disabled list
enableMigration(input) ==
    /\ UNCHANGED <<migVars, limVars, syncVars, monVars, cliVars>>
    /\ UNCHANGED tempDirs
    /\ rpc = "shell"
    /\ LET filename == resolveToFilename(input, TRUE) IN
        IF filename = NoFile \/ filename \notin disabled
           THEN /\ rlog' = Logged(Invocation("enable", input, filename, <<>>,
                                             0, 0, <<>>, 1, Dirs))
                /\ UNCHANGED <<available, disabled>>
           ELSE /\ disabled' = disabled \ {filename}
                /\ available' = available \cup {filename}
                /\ rlog' = Logged(Invocation("enable", input, filename, <<>>,
                                             0, 0, <<>>, 0,
                                             [available |-> available \cup {filename},
                                              disabled |-> disabled \ {filename}]))
    /\ UNCHANGED <<rpc, argv, migrations, runIndex, ran, rangeSuccessCount,
                   failedAt>>

\* 'run <number|filename>' of the first version: runSingleMigration returns
\* and the process exits with 1 after a failure
RunSingle(input, ok) ==
    /\ UNCHANGED <<migVars, limVars, syncVars, monVars, cliVars>>
    /\ rpc = "shell"
    /\ LET filename == resolveToFilename(input, FALSE) IN
        IF filename = NoFile \/ filename \notin available
           THEN /\ rlog' = << Invocation("run", input, filename, <<>>,
                                        0, 0, <<>>, 1, Dirs) >>
                /\ UNCHANGED tempDirs
           ELSE /\ tempDirs' = TempDirsAfterRun(tempDirs)
                /\ rlog' = << Invocation("run", input, filename,
                                        <<[file |-> filename, ok |-> ok]>>,
                                        IF ok THEN 1 ELSE 0, 0, <<>>,
                                        IF ok THEN 0 ELSE 1, Dirs) >>
    /\ UNCHANGED <<available, disabled, rpc, argv, migrations, runIndex, ran,
                   rangeSuccessCount, failedAt>>

\* 'run <number|filename>' of the second version: the catch block calls
\* process.exit(1), which ends the process where it is called
runMigration(input, ok) ==
    /\ UNCHANGED <<migVars, limVars, syncVars, monVars, cliVars>>
    /\ rpc = "shell"
    /\ ok \/ Cardinality(tempDirs) < MaxTempDirs
    /\ LET filename == resolveToFilename(input, FALSE) IN
        IF filename = NoFile \/ filename \notin available
           THEN /\ rlog' = << Invocation("run", input, filename, <<>>,
                                        0, 0, <<>>, 1, Dirs) >>
                /\ UNCHANGED tempDirs
           ELSE /\ tempDirs' = IF ok THEN TempDirsAfterRun(tempDirs)
                               ELSE tempDirs \cup {Mkdtemp(tempDirs)}
                /\ rlog' = << Invocation("run", input, filename,
                                        <<[file |-> filename, ok |-> ok]>>,
                                        IF ok THEN 1 ELSE 0, 0, <<>>,
                                        IF ok THEN 0 ELSE 1, Dirs) >>
    /\ UNCHANGED <<available, disabled, rpc, argv, migrations, runIndex, ran,
                   rangeSuccessCount, failedAt>>

\* the runs of both versions of the script
CleanupNext ==
    \/ \E a, b \in 0..(MaxFiles + 1) : RunRange(a, b)
    \/ \E ok \in BOOLEAN : RunSingleMigration(ok)
    \/ RangeSummary
    \/ \E input \in FileArgs, ok \in BOOLEAN : RunSingle(input, ok)
    \/ \E input \in FileArgs, ok \in BOOLEAN : runMigration(input, ok)

RunnerNext ==
    \/ \E a, b \in 0..(MaxFiles + 1) : RunRange(a, b)
    \/ \E ok \in BOOLEAN : RunSingleMigration(ok)
    \/ RangeSummary
    \/ \E input \in FileArgs : disableMigration(input)
    \/ \E input \in FileArgs : enableMigration(input)

RunnerStart == MigIdle /\ LimIdle /\ SyncIdle /\ MonIdle /\ RunnerInit

RunnerSpec == RunnerStart /\ [][RunnerNext]_vars

CleanupSpec == RunnerStart /\ [][CleanupNext]_vars

(***************************************************************************)
(* Properties of the code-to-text migration                                *)
(***************************************************************************)

Range(seq) == {seq[k] : k \in 1..Len(seq)}

CoveredIds(wins) == UNION {WinIds(wins[k]) : k \in 1..Len(wins)}

HasRejectedRow(w) == \E i \in RowsIn(code, w.lo, w.hi) : ~RowAccepted(code[i])

\* C1: the windows passed to processBatchForCode in one run are non-empty,
\* pairwise disjoint, and when the loop has ended their union is exactly
\* the interval [startId, endId] = [1, maxTransactionID].
C1_Partition ==
    /\ \A k \in 1..Len(windows) : windows[k].lo <= windows[k].hi
    /\ \A j, k \in 1..Len(windows) :
          j # k => WinIds(windows[j]) \cap WinIds(windows[k]) = {}
    /\ mpc = "done" =>
          CoveredIds(windows) = startTransactionIdForCode..maxTransactionID

\* a finished run of several windows whose last window was clamped to startId
C1_Witness ==
    /\ mpc = "done"
    /\ Len(windows) >= 2
    /\ windows[Len(windows)].lo = startTransactionIdForCode
    /\ windows[Len(windows)].hi - windows[Len(windows)].lo + 1 < batchSize

\* C2: a window that holds a row whose raw code is neither '{}' nor a quoted
\* string (nor NULL) is never updated: no UPDATE is issued for it, nothing is
\* pending in its transaction, none of its rows is ever converted, it is the
\* last window the run begins, and a run that reports an invalid row has
\* stopped in the validation pass of the window that holds that row.
C2_FailClosed ==
    /\ \A k \in 1..Len(windows) :
          HasRejectedRow(windows[k]) =>
             /\ <<"update", windows[k].lo, windows[k].hi>> \notin Range(mlog)
             /\ windows[k] \notin Range(committedWins)
             /\ WinIds(windows[k]) \cap converted = {}
             /\ \A i \in RowsIn(code, windows[k].lo, windows[k].hi) :
                   codetext[i] = SqlNull
             /\ k = Len(windows)
             /\ txWrites = NoWrites
    /\ abortId # 0 =>
          /\ mpc = "fatal"
          /\ abortId \in RowsIn(code, batchMinId, currentMaxId)
          /\ ~RowAccepted(code[abortId])

\* the run aborted in a window whose scan first met an accepted quoted string
\* and then the rejected row
C2_Witness ==
    /\ mpc = "fatal"
    /\ abortId # 0
    /\ \E i \in RowsIn(code, batchMinId, currentMaxId) :
          i > abortId /\ code[i] = QuotedA /\ codetext[i] = SqlNull

\* C3: in every reachable state every window is written wholly or not at all:
\* either each of its rows carries the converted value of its code, written
\* by a committed UPDATE, or none of its rows has been written.
C3_AtomicWindow ==
    \A k \in 1..Len(windows) :
       LET winRows == RowsIn(code, windows[k].lo, windows[k].hi) IN
          \/ /\ winRows \subseteq converted
             /\ \A i \in winRows : codetext[i] = CodeText(code[i])
          \/ /\ winRows \cap converted = {}
             /\ \A i \in winRows : codetext[i] = SqlNull

\* a first-run process died after the UPDATE of a window was issued and
\* before its commit, the two-row window before it being committed
C3_Witness ==
    /\ mrun = 1
    /\ mpc = "fatal"
    /\ Len(mlog) >= 2
    /\ mlog[Len(mlog)] = <<"fatal">>
    /\ mlog[Len(mlog) - 1] = <<"update", batchMinId, currentMaxId>>
    /\ \E i \in RowsIn(code, batchMinId, currentMaxId) : code[i] = QuotedA
    /\ RowsIn(code, batchMinId, currentMaxId) \cap converted = {}
    /\ Len(committedWins) = 1
    /\ Cardinality(WinIds(committedWins[1])) = 2
    /\ WinIds(committedWins[1]) \subseteq converted
    /\ \E i \in WinIds(committedWins[1]) : codetext[i] = <<"a">>

E2ELog ==
    << <<"begin", 706, 1205>>, <<"validated", 706, 1205>>,
       <<"update", 706, 1205>>, <<"commit", 706, 1205>>,
       <<"begin", 206, 705>>, <<"validated", 206, 705>>,
       <<"update", 206, 705>>, <<"commit", 206, 705>>,
       <<"begin", 1, 205>>, <<"validated", 1, 205>>,
       <<"update", 1, 205>>, <<"commit", 1, 205>>,
       <<"completed", 1205>> >>

IsE2E == DOMAIN code = E2EKeys /\ batchSize = codeBatchSize

\* C10: on the table with keys 1..1205, all valid, at window size 500 a run
\* that completes has processed exactly [706,1205], [206,705], [1,205] in that
\* order, each window validated before its update and committed before the
\* next one begins, and its summary reports 1205 rows.
C10_EndToEnd ==
    (IsE2E /\ mpc = "done") =>
        /\ windows = <<Window(706, 1205), Window(206, 705), Window(1, 205)>>
        /\ committedWins = windows
        /\ mlog = E2ELog
        /\ totalProcessed = 1205

C10_Witness ==
    /\ IsE2E
    /\ mpc = "done"
    /\ converted = E2EKeys
    /\ \A i \in E2EKeys : codetext[i] = <<"a">>

\* C11: every window of a run holds at most codeBatchSize keys (batchSize is
\* the size the run was started with), the first window ends at the maximum
\* key, every later window ends one key below the lower bound of the window
\* before it, no window reaches below startId, a window is shorter than
\* codeBatchSize only where it is clamped to startId, and the last window of
\* a finished run starts at startId.
C11_WindowShape ==
    /\ \A k \in 1..Len(windows) :
          /\ windows[k].hi - windows[k].lo + 1 <= batchSize
          /\ windows[k].lo >= startTransactionIdForCode
          /\ windows[k].hi - windows[k].lo + 1 < batchSize =>
                windows[k].lo = startTransactionIdForCode
    /\ windows # <<>> => windows[1].hi = maxTransactionID
    /\ \A k \in 1..(Len(windows) - 1) : windows[k + 1].hi = windows[k].lo - 1
    /\ (mpc = "done" /\ windows # <<>>) =>
          windows[Len(windows)].lo = startTransactionIdForCode

\* the table of 1205 keys at codeBatchSize = 500: two full windows and the
\* clamped window 1..205
C11_Witness ==
    /\ IsE2E
    /\ mpc = "done"
    /\ windows = <<Window(706, 1205), Window(206, 705), Window(1, 205)>>

\* C12: the validation pass aborts the job at a row exactly when the row's
\* raw code (a value, not NULL) is neither '{}' nor a text that starts and
\* ends with a double quote: the id reported is the id of such a row of the
\* window under validation, every row the pass read before it (the rows of
\* higher id) had one of the two shapes or was NULL, and a window whose
\* validation pass ended without abort holds no row of another shape.
C12_ValidationRule ==
    LET Shaped(raw) == raw = EmptyObject
                          \/ (raw[1] = Quote /\ raw[Len(raw)] = Quote)
        Bad(i) == code[i] # SqlNull /\ ~Shaped(code[i])
    IN  /\ \A n \in 1..Len(mlog) :
              mlog[n][1] = "validated" =>
                 \A i \in RowsIn(code, mlog[n][2], mlog[n][3]) : ~Bad(i)
        /\ \A n \in 1..Len(mlog) :
              mlog[n][1] = "abort" =>
                 /\ n = Len(mlog)
                 /\ mpc = "fatal"
                 /\ abortId = mlog[n][2]
                 /\ abortId \in RowsIn(code, batchMinId, currentMaxId)
                 /\ Bad(abortId)
                 /\ \A i \in RowsIn(code, batchMinId, currentMaxId) :
                       i > abortId => ~Bad(i)
        /\ mpc \in {"validated", "updated"} =>
              \A i \in RowsIn(code, batchMinId, currentMaxId) : ~Bad(i)
        /\ abortId # 0 => mlog[Len(mlog)] = <<"abort", abortId>>

\* a window of '{}' and NULL rows was validated and committed, then the run
\* aborted at a number in the next window
C12_Witness ==
    /\ abortId = 1
    /\ DOMAIN code = 1..3
    /\ code[3] = EmptyObject /\ code[2] = SqlNull /\ code[1] = Number7
    /\ committedWins = <<Window(2, 3)>>

\* C13: on an empty table (maximum key 0) a run generates no window, opens no
\* transaction and changes no row; when its database calls succeed it ends
\* reporting "nothing to update", and only a run on an empty table does.
C13_EmptyRange ==
    /\ DOMAIN code = {} =>
          /\ mpc \in {"start", "nothing", "error"}
          /\ windows = <<>> /\ committedWins = <<>>
          /\ txOpen = {} /\ txWrites = NoWrites
          /\ converted = {} /\ codetext = NoWrites
          /\ maxTransactionID = 0
          /\ mpc = "nothing" => mlog = <<(<<"nothing to update">>)>>
          /\ mpc # "nothing" => mlog = <<>>
    /\ mpc = "nothing" => DOMAIN code = {}

\* a first run on the empty table has ended with "nothing to update"
C13_Witness ==
    /\ mpc = "nothing"
    /\ mrun = 1
    /\ DOMAIN code = {}

\* C15: a run that hits a fatal failure in a window (validation, the SELECT,
\* the UPDATE or the commit) stops there: the failure is the last thing the
\* run does, that window is not committed, no transaction stays open, the run
\* never reports completion, and nothing of the run or of the table changes
\* afterwards; the rows of the windows committed before it keep their
\* converted value, then and in every later run.
C15_FatalStops ==
    /\ [](/\ \A n \in 1..Len(mlog) :
                mlog[n][1] \in {"abort", "fatal"} =>
                   n = Len(mlog) /\ mpc = "fatal"
          /\ mpc = "fatal" =>
                /\ txOpen = {} /\ txWrites = NoWrites
                /\ windows # <<>>
                /\ windows[Len(windows)] \notin Range(committedWins)
                /\ \A n \in 1..Len(mlog) : mlog[n][1] # "completed"
                /\ \A k \in 1..Len(committedWins) :
                      \A i \in RowsIn(code, committedWins[k].lo, committedWins[k].hi) :
                         i \in converted /\ codetext[i] = CodeText(code[i]))
    /\ [][/\ (mpc = "fatal" /\ mrun' = mrun) =>
                UNCHANGED <<mpc, windows, committedWins, mlog, code, codetext,
                            converted, txOpen, txWrites, totalProcessed>>
          /\ \A i \in converted :
                i \in converted' /\ codetext'[i] = codetext[i]]_vars

\* two windows were committed and the run died on a failed database call
\* after the UPDATE of the third
C15_Witness ==
    /\ mpc = "fatal"
    /\ Len(committedWins) = 2
    /\ Len(windows) = 3
    /\ mlog[Len(mlog)] = <<"fatal">>
    /\ <<"update", windows[3].lo, windows[3].hi>> \in Range(mlog)
    /\ converted = WinIds(windows[1]) \cup WinIds(windows[2])

\* C16: a window is processed inside one transaction of its own; at any time
\* at most one transaction is open, it is the one of the window in progress,
\* it holds writes of that window only, and it has ended (commit or rollback)
\* before the loop begins the next window or the run stops.
C16_OneTransactionPerWindow ==
    /\ Cardinality(txOpen) <= 1
    /\ mpc \in {"begun", "validated", "updated"} =>
          /\ txOpen = {Window(batchMinId, currentMaxId)}
          /\ windows[Len(windows)] = Window(batchMinId, currentMaxId)
    /\ mpc \notin {"begun", "validated", "updated"} =>
          txOpen = {} /\ txWrites = NoWrites
    /\ DOMAIN txWrites \subseteq UNION {WinIds(w) : w \in txOpen}
    /\ \A k \in 1..Len(windows) :
          Cardinality({n \in 1..Len(mlog) :
                          mlog[n] = <<"begin", windows[k].lo, windows[k].hi>>}) = 1
    /\ Cardinality({n \in 1..Len(mlog) : mlog[n][1] = "begin"}) = Len(windows)

\* the first window was committed and the second is being processed in its
\* own transaction, with its writes pending
C16_Witness ==
    /\ mpc = "updated"
    /\ Len(windows) = 2
    /\ committedWins = <<windows[1]>>
    /\ txOpen = {windows[2]}
    /\ DOMAIN txWrites = WinIds(windows[2])

\* how far the two progress lines printed last are apart, in thousandths of
\* the id range: 0.1 percentage points are totalTransactions thousandths
BetweenLines == (lastProgressPrinted - prevProgressPrinted) * 1000

\* C23: a progress line is printed after a window only when the percentage
\* covered is at least 0.1 points above that of the last printed line, so the
\* percentages of two consecutive progress lines differ by at least 0.1; the
\* first window of a run always prints one
C23_ProgressThrottle ==
    /\ prevProgressPrinted # -1 => BetweenLines >= totalTransactions
    /\ lastProgressPrinted # -1 => lastProgressPrinted >= 1
    /\ committedWins # <<>> =>
          /\ lastProgressPrinted # -1
          /\ lastProgressPrinted <= ProcessedSpan(currentMaxId)

\* 1001 ids in windows of 1: the third window is committed, the first window
\* printed a line, the second did not (0.0999 points) and the third did
C23_Witness ==
    /\ maxTransactionID = 1001 /\ batchSize = 1
    /\ Len(committedWins) = 3
    /\ prevProgressPrinted = 1 /\ lastProgressPrinted = 3

(***************************************************************************)
(* Properties of the balance reconciliation                                *)
(***************************************************************************)

\* rows this run has fetched so far
Fetched == UNION {Range(batches[k]) : k \in 1..Len(batches)}

C6_SkipDoesNotAbort ==
    /\ \A i \in DOMAIN answer :
          (~hasTokenId[i] /\ answer[i] = "throws") =>
              i \notin touched /\ balance[i] = 1
    /\ spc \in {"selectFailed", "updateFailed"} => runFaulted
    /\ (spc = "done" /\ ~runFaulted) =>
          /\ \A i \in Fetched :
                (~hasTokenId[i] /\ answer[i] = "success") =>
                    i \in touched /\ balance[i] = NodeBalance(i)
          /\ variant = "full" =>
                /\ Fetched = DOMAIN balance
                /\ syncProcessed = Cardinality(DOMAIN balance)
                /\ syncProcessed - totalUpdated >=
                      Cardinality({i \in DOMAIN answer :
                                      ~hasTokenId[i] /\ answer[i] = "throws"})
          /\ variant = "recent" =>
                /\ successCount =
                      Cardinality({i \in Fetched : answer[i] = "success"})
                /\ errorCount =
                      Cardinality({i \in Fetched : answer[i] # "success"})

\* syncBalances ran to its end over two batches; in the first batch the query
\* of row 1 threw and row 2 was written, and the next batch was written too
C6_Witness ==
    /\ variant = "full" /\ spc = "done" /\ ~runFaulted
    /\ Len(batches) = 2
    /\ batches[1] = <<1, 2>>
    /\ ~hasTokenId[1] /\ answer[1] = "throws" /\ 1 \in Range(queried) /\ 1 \notin touched
    /\ 2 \in touched /\ balance[2] = NodeBalance(2)
    /\ 3 \in touched

\* C7: a row whose query returns a non-success status, or throws, is never
\* written in that run, in syncBalances and in syncRecentBalances alike.
C7_NonSuccessIsSkip ==
    \A i \in DOMAIN answer : answer[i] # "success" => i \notin touched

\* C9: when the job has been run to its end twice (or more) over the same
\* table against the same node, no database call having failed in the first
\* run or in the last, every row has the balance it had after the first run.
C9_Idempotent ==
    (srun >= 2 /\ spc = "done" /\ ~runFaulted
       /\ firstRun.taken /\ firstRun.done /\ ~firstRun.faulted) =>
        balance = firstRun.balance

\* the second run has written rows again, and the first run had changed them
C9_Witness ==
    /\ srun = 2 /\ spc = "done" /\ ~runFaulted
    /\ firstRun.taken /\ firstRun.done /\ ~firstRun.faulted
    /\ Cardinality(touched) >= 2
    /\ \A i \in touched : balance[i] = NodeBalance(i) /\ balance[i] # 1

\* C17: syncBalances reads "Balances" in ascending id order past a cursor
\* while other clients insert rows above it: the ids of a batch ascend
\* strictly, every id of a batch lies above every id of the batches before it
\* (no row is in two batches), the cursor is the last id of the last batch
\* worked off and each batch starts above it, a batch holds at most the LIMIT,
\* and when the scan ends without failure every row that existed when it
\* started has been fetched.
C17_AscendingScan ==
    variant = "full" =>
       /\ \A k \in 1..Len(batches) :
             /\ Len(batches[k]) \in 1..batchLimit
             /\ \A a, b \in 1..Len(batches[k]) :
                   a < b => batches[k][a] < batches[k][b]
       /\ \A j, k \in 1..Len(batches) :
             j < k => \A a \in Range(batches[j]), b \in Range(batches[k]) : a < b
       /\ LET done == IF spc \in {"start", "done", "selectFailed"}
                         THEN Len(batches) ELSE Len(batches) - 1
          IN  /\ currentId = IF done = 0 THEN 0
                                ELSE batches[done][Len(batches[done])]
              /\ \A k \in 1..Len(batches) :
                    k > done => currentId < batches[k][1]
       /\ spc = "done" => (DOMAIN balance \ inserted) \subseteq Fetched

\* a scan of three rows at LIMIT 2 during which a row was inserted: it ended
\* after a second batch that holds the last old row and the inserted row
C17_Witness ==
    /\ variant = "full" /\ spc = "done" /\ srun = 1
    /\ batchLimit = 2
    /\ inserted = {4}
    /\ batches = <<(<<1, 2>>), (<<3, 4>>)>>

\* C14: windows are processed strictly one after another and committed in the
\* order they were generated.  Migration: the committed windows are a prefix
\* of the generated ones, at most one generated window is not yet committed,
\* and none is while the loop is between windows.  syncBalances: every row of
\* an earlier batch that had a result to write was written before the next
\* batch was fetched, the tasks in flight and the update loop belong to the
\* last batch fetched, the batches follow the ascending id order, and the
\* processed count is the size of the batches worked off.
C14_Sequential ==
    /\ Len(committedWins) <= Len(windows)
    /\ Len(windows) <= Len(committedWins) + 1
    /\ \A k \in 1..Len(committedWins) : committedWins[k] = windows[k]
    /\ mpc \in {"loop", "done"} => committedWins = windows
    /\ mpc \in {"begun", "validated", "updated"} =>
          Len(windows) = Len(committedWins) + 1
    /\ variant = "full" =>
          /\ \A k \in 1..(Len(batches) - 1) :
                /\ \A id \in Range(batches[k]) :
                      (~hasTokenId[id] /\ answer[id] # "throws") => id \in touched
                /\ batches[k][Len(batches[k])] < batches[k + 1][1]
          /\ spc \in {"fetching", "updating", "updateFailed"} =>
                /\ rows = batches[Len(batches)]
                /\ DOMAIN stage = Range(rows)
          /\ touched \subseteq Fetched
          /\ LET done == IF spc \in {"start", "done", "selectFailed"}
                            THEN Len(batches) ELSE Len(batches) - 1
                 RECURSIVE Size(_)
                 Size(n) == IF n = 0 THEN 0 ELSE Len(batches[n]) + Size(n - 1)
             IN  syncProcessed = Size(done)

\* syncBalances wrote both rows of its first batch and is in the update loop
\* of its second batch, none of whose rows is written yet
C14_Witness ==
    /\ variant = "full" /\ spc = "updating" /\ srun = 1
    /\ batches = <<(<<1, 2>>), (<<3>>)>>
    /\ touched = {1, 2}
    /\ PendingUpdates # {}

\* C26: the results collected for a batch have one entry per row of the
\* batch, and the i-th result is that of the i-th row, in whatever order the
\* queries complete
C26_ResultOrder ==
    /\ \A k \in DOMAIN results : k \in 1..Len(rows) /\ results[k].id = rows[k]
    /\ spc \in {"fetching", "updating"} /\ variant = "full" =>
          DOMAIN results = {IndexOf(rows, i) : i \in {j \in DOMAIN stage : stage[j] = "done"}}
    /\ spc = "updating" => DOMAIN results = 1..Len(rows)

\* the queries of the batch <<1, 2, 3>> complete in the order 3, 2, 1: the
\* results of rows 3 and 2 are there, that of row 1 is not
C26_Witness ==
    /\ variant = "full" /\ spc = "fetching"
    /\ rows = <<1, 2, 3>>
    /\ \A i \in 1..3 : ~hasTokenId[i]
    /\ DOMAIN results = {2, 3}
    /\ results[2].id = 2 /\ results[3].id = 3

\* C27: in syncBalances a row with hasTokenId set is never sent to the node
\* and never updated, while it counts towards totalProcessed and advances the
\* cursor; syncRecentBalances does not select such rows
C27_OutOfScopeRows ==
    /\ \A i \in DOMAIN hasTokenId :
          hasTokenId[i] =>
             /\ i \notin Range(queried)
             /\ i \notin touched
             /\ balance[i] = 1
    /\ variant = "recent" => \A i \in Fetched : ~hasTokenId[i]
    /\ variant = "full" /\ spc \in {"start", "done"} =>
          /\ syncProcessed = Cardinality(Fetched)
          /\ currentId = Max(Fetched \cup {0})

\* syncBalances has ended after the batches <<1, 2>> and <<3>>, rows 2 and 3
\* with a token id: three rows processed, the cursor at 3, only row 1 queried
\* and written
C27_Witness ==
    /\ variant = "full" /\ spc = "done"
    /\ batches = <<(<<1, 2>>), (<<3>>)>>
    /\ ~hasTokenId[1] /\ hasTokenId[2] /\ hasTokenId[3]
    /\ syncProcessed = 3 /\ currentId = 3
    /\ queried = <<1>> /\ touched = {1}

\* C28: one invocation of the db-migrator runs exactly the job named by
\* -command; an empty or unknown command runs no job and exits non-zero; a run
\* that ends in a fatal error exits non-zero, one that completes exits zero
C28_JobSelection ==
    /\ jobsRun = <<>> \/ (command \in JobNames /\ jobsRun = <<command>>)
    /\ mpc # "idle" => jobsRun = <<"code-to-text">>
    /\ cpc = "job" => jobsRun = <<command>>
    /\ exitCode # NoExit <=> cpc = "exited"
    /\ cpc = "exited" =>
          /\ command \notin JobNames =>
                jobsRun = <<>> /\ exitCode # 0 /\ mlog = <<>>
          /\ command \in JobNames =>
                /\ jobsRun = <<command>>
                /\ jobEnd \in {"complete", "fatal"}
                /\ exitCode = 0 <=> jobEnd = "complete"
          /\ command = "code-to-text" =>
                /\ mpc \in {"done", "nothing"} => exitCode = 0
                /\ mpc \in {"error", "fatal"} => exitCode # 0

\* -command=code-to-text over a table whose row 2 is rejected: the job has run
\* and ended in the fatal error, the process has exited with status 1
C28_Witness ==
    /\ command = "code-to-text" /\ cpc = "exited"
    /\ jobsRun = <<"code-to-text">>
    /\ mpc = "fatal" /\ abortId = 2
    /\ exitCode = 1

\* the invocations of a command that have ended
Ended(cmd) == {k \in 1..Len(rlog) : rlog[k].command = cmd}

\* the migrations numbered from..to of the list of a directory, in order
Numbered(dir, from, to) ==
    [k \in 1..(to - from + 1) |-> Ascending(dir)[from + k - 1]]

\* C29: 'run a-b' with 1 <= a <= b <= number of available migrations runs the
\* migrations a..b in ascending order and stops at the first failure f: none
\* after f is run, the success count is f - a, the hint is 'run f-b' and the
\* exit code 1; without a failure all b - a + 1 are run and the exit code is
\* 0. An invalid range runs no migration and exits with 1
C29_RangeRun ==
    /\ \A k \in Ended("run") :
          LET e == rlog[k]
              a == e.arg.a
              b == e.arg.b
              n == Cardinality(e.before.available)
              f == e.failedAt
          IN  /\ e.after = e.before
              /\ IF 1 <= a /\ a <= b /\ b <= n
                    THEN IF \E j \in 1..Len(e.ran) : ~e.ran[j].ok
                            THEN /\ f \in a..b
                                 /\ [j \in 1..Len(e.ran) |-> e.ran[j].file]
                                       = Numbered(e.before.available, a, f)
                                 /\ \A j \in 1..Len(e.ran) :
                                       e.ran[j].ok <=> j < Len(e.ran)
                                 /\ e.successCount = f - a
                                 /\ e.hint = <<f, b>>
                                 /\ e.exit = 1
                            ELSE /\ [j \in 1..Len(e.ran) |-> e.ran[j].file]
                                       = Numbered(e.before.available, a, b)
                                 /\ Len(e.ran) = b - a + 1
                                 /\ e.successCount = b - a + 1
                                 /\ f = 0 /\ e.hint = <<>>
                                 /\ e.exit = 0
                    ELSE e.ran = <<>> /\ e.exit = 1
    /\ rpc = "range" =>
          /\ \A j \in 1..Len(ran) :
                /\ ran[j].file = migrations[argv.arg.a + j - 1]
                /\ ~ran[j].ok => j = Len(ran) /\ failedAt = argv.arg.a + j - 1
          /\ Len(ran) <= argv.arg.b - argv.arg.a + 1

\* 'run 1-3' over three available migrations has ended: the first ran, the
\* second failed, the third was not run
C29_Witness ==
    /\ rpc = "shell" /\ rlog # <<>>
    /\ LET e == rlog[Len(rlog)] IN
          /\ e.command = "run" /\ e.arg = RangeArg(1, 3)
          /\ e.before.available = {1, 2, 3}
          /\ e.ran = <<[file |-> 1, ok |-> TRUE], [file |-> 2, ok |-> FALSE]>>
          /\ e.successCount = 1 /\ e.failedAt = 2 /\ e.hint = <<2, 3>>
          /\ e.exit = 1

\* C30: every migration file is in exactly one of the two directories;
\* disable of an available file moves exactly that file to .disabled, enable
\* of a disabled file moves it back, so disable followed by enable of the
\* same filename restores the directories; disable of a file that is not
\* available and enable of a file that is not disabled change nothing and
\* exit with 1
C30_DisableEnable ==
    /\ available \cap disabled = {}
    /\ rlog # <<>> => rlog[Len(rlog)].after = Dirs
    /\ \A k \in 1..Len(rlog) :
          /\ rlog[k].after.available \cap rlog[k].after.disabled = {}
          /\ rlog[k].after.available \cup rlog[k].after.disabled
                = rlog[k].before.available \cup rlog[k].before.disabled
    /\ \A k \in Ended("disable") :
          LET e == rlog[k]
              f == e.filename
          IN  IF f \in e.before.available
                 THEN /\ e.exit = 0
                      /\ e.after.available = e.before.available \ {f}
                      /\ e.after.disabled = e.before.disabled \cup {f}
                 ELSE e.exit = 1 /\ e.after = e.before
    /\ \A k \in Ended("enable") :
          LET e == rlog[k]
              f == e.filename
          IN  IF f \in e.before.disabled
                 THEN /\ e.exit = 0
                      /\ e.after.disabled = e.before.disabled \ {f}
                      /\ e.after.available = e.before.available \cup {f}
                 ELSE e.exit = 1 /\ e.after = e.before
    /\ \A k \in Ended("disable") :
          (/\ k < Len(rlog)
           /\ rlog[k].exit = 0
           /\ rlog[k + 1].command = "enable"
           /\ rlog[k + 1].arg = NameArg(rlog[k].filename))
             => rlog[k + 1].exit = 0 /\ rlog[k + 1].after = rlog[k].before

\* 'disable 2' over the available files 1, 2, 3 moved file 2 to .disabled, and
\* 'enable' of that filename has moved it back
C30_Witness ==
    /\ Len(rlog) = 2
    /\ rlog[1].command = "disable" /\ rlog[1].arg = NumberArg(2)
    /\ rlog[1].before = [available |-> {1, 2, 3}, disabled |-> {}]
    /\ rlog[1].after = [available |-> {1, 3}, disabled |-> {2}]
    /\ rlog[2].command = "enable" /\ rlog[2].arg = NameArg(2)
    /\ rlog[2].exit = 0
    /\ Dirs = rlog[1].before

\* C25: within one run of syncBalances or syncRecentBalances the node is
\* queried at most once for a selected row, also when its query fails, and
\* for no row that was not selected
C25_NoInlineRetry ==
    /\ \A j, k \in 1..Len(queried) : queried[j] = queried[k] => j = k
    /\ Range(queried) \subseteq Fetched
    /\ \A i \in Fetched :
          (i \in DOMAIN stage /\ stage[i] = "done"
              /\ (variant = "recent" \/ ~hasTokenId[i]))
             => i \in Range(queried)

\* syncRecentBalances has ended: the query of row 1 threw, that of row 2
\* returned a non-success status, that of row 3 succeeded; each was sent once
C25_Witness ==
    /\ variant = "recent" /\ spc = "done"
    /\ Len(queried) = 3 /\ Range(queried) = {1, 2, 3}
    /\ answer[1] = "throws" /\ answer[2] = "failure" /\ answer[3] = "success"
    /\ errorCount = 2 /\ successCount = 1

\* the lines "Completed processing. Total TransactionDetails updated: n
\* (100.0%)" of the migration run
Summaries == {k \in 1..Len(mlog) : mlog[k][1] = "completed"}

\* rows the UPDATE statements of the committed windows returned, summed up
RowsReturned ==
    LET RECURSIVE Sum(_)
        Sum(n) == IF n = 0 THEN 0
                  ELSE Cardinality(RowsIn(code, committedWins[n].lo,
                                          committedWins[n].hi)) + Sum(n - 1)
    IN  Sum(Len(committedWins))

\* rows syncBalances fetched whose task did not resolve to a skip marker
NotSkipped == {i \in Fetched : ~hasTokenId[i] /\ answer[i] # "throws"}

\* the summary of a migration run: none before the run has completed, one
\* after its last window when it has, with the sum of the windows' rows
MigrationSummary ==
    /\ mpc # "done" => Summaries = {}
    /\ mpc = "done" =>
          /\ Summaries = {Len(mlog)}
          /\ mlog[Len(mlog)] = <<"completed", RowsReturned>>
          /\ totalProcessed = Cardinality(DOMAIN code)

\* the summary of syncBalances: the counters when the loop has ended
SyncSummary ==
    (variant = "full" /\ spc = "done") =>
        /\ syncProcessed = Cardinality(Fetched)
        /\ totalUpdated = Cardinality(NotSkipped)
        /\ totalUpdated <= syncProcessed

\* C24 as stated: every run that completes without a fatal error, the
\* migration over an empty table included, has printed its one summary
C24_AsClaimed ==
    /\ MigrationSummary
    /\ SyncSummary
    /\ mpc = "nothing" => Cardinality(Summaries) = 1

\* C24: a run that completes without a fatal error prints one final summary
\* after its last window, whose counts are the sums over all windows
\* (migration: the rows the window updates returned; syncBalances: rows
\* fetched and rows not skipped), whether or not rows were skipped; the
\* migration over an empty table, which has no window, prints none
C24_FinalSummary ==
    /\ MigrationSummary
    /\ SyncSummary
    /\ mpc = "nothing" => Summaries = {} /\ committedWins = <<>>

\* syncBalances has ended after two batches: three rows fetched, one of them
\* skipped for its token id, one for its failed query, one written
C24_Witness ==
    /\ variant = "full" /\ spc = "done"
    /\ batches = <<(<<1, 2>>), (<<3>>)>>
    /\ syncProcessed = 3 /\ totalUpdated = 1
    /\ \E i \in Fetched : hasTokenId[i]
    /\ \E i \in Fetched : answer[i] = "throws"

Init == MigInit /\ LimIdle /\ SyncIdle /\ MonIdle /\ ToolIdle

Next == MigNext

Spec == Init /\ [][Next]_vars

(***************************************************************************)
(* Restart of a job                                                        *)
(***************************************************************************)

\* C8, as claimed: a run started after an earlier run had committed windows
\* processes none of the committed windows again.
C8_AsClaimed ==
    mrun > 1 => CoveredIds(windows) \cap earlierIds = {}

\* C8, amended: a run started after an earlier run does not resume where that
\* run stopped.  It starts again from the table: the migration at the current
\* maximum id, syncBalances at cursor 0; a run that ends has gone through the
\* whole range, the windows committed earlier included, so that it skips no
\* window left unprocessed, and it leaves every row converted.
C8_RestartsFromTable ==
    /\ (mrun > 1 /\ Len(windows) >= 1) => windows[1].hi = Max(DOMAIN code)
    /\ (mrun > 1 /\ mpc = "done") =>
          /\ CoveredIds(windows) = startTransactionIdForCode..Max(DOMAIN code)
          /\ earlierIds \subseteq CoveredIds(windows)
          /\ \A i \in DOMAIN code : codetext[i] = CodeText(code[i])
    /\ (srun > 1 /\ variant = "full" /\ Len(batches) >= 1) =>
          batches[1][1] = Min(DOMAIN balance)
    /\ (srun > 1 /\ variant = "full" /\ spc = "done") =>
          Fetched = DOMAIN balance

\* the first run committed its first window and stopped; the second run went
\* through that window again and through the rest
C8_Witness ==
    /\ mrun = 2 /\ mpc = "done"
    /\ Len(windows) >= 2
    /\ earlierIds = WinIds(windows[1])
    /\ committedWins = windows

(***************************************************************************)
(* Properties of error monitoring                                          *)
(***************************************************************************)

\* report k was issued by call n
ReportOf(n) == {k \in DOMAIN reports : reports[k].call = n}

\* C18: every call of the replaced console.error first invokes the original
\* console.error and then returns to its caller without throwing, and it has
\* returned while the report it issued is still in flight.
C18_InterceptorContract ==
    /\ \A n \in DOMAIN calls :
          calls[n].intercepted =>
             /\ calls[n].steps[1] = "original"
             /\ calls[n].result = "returned"
    /\ \A k \in DOMAIN reports :
          reports[k].sink = "inflight" =>
             calls[reports[k].call].result = "returned"

\* C19: a report the sink fails is logged locally by reportError's catch
\* block (one console.error call of the reporter per failed report, which
\* reaches the original console.error and returns), the promise of
\* reportError resolves all the same, no promise of reportError is ever
\* rejected, and the call that issued the report has returned normally.
C19_SinkFailureSwallowed ==
    /\ \A k \in DOMAIN reports :
          /\ reports[k].promise # "rejected"
          /\ reports[k].sink = "failed" => reports[k].promise = "resolved"
          /\ calls[reports[k].call].result = "returned"
    /\ Cardinality({n \in DOMAIN calls : calls[n].origin = "reporter"})
          = Cardinality({k \in DOMAIN reports : reports[k].sink = "failed"})
    /\ \A n \in DOMAIN calls :
          calls[n].origin = "reporter" =>
             /\ calls[n].args = ReportFailureArgs
             /\ calls[n].steps[1] = "original"
             /\ calls[n].result = "returned"

\* the report of an application error failed at the sink: the failure was
\* logged by the reporter and the promise resolved
C19_Witness ==
    \E k \in DOMAIN reports :
       /\ reports[k].sink = "failed"
       /\ reports[k].promise = "resolved"
       /\ calls[reports[k].call].origin = "app"
       /\ \E n \in DOMAIN calls :
             n > reports[k].call /\ calls[n].origin = "reporter"

\* C20: a call of the replaced console.error whose normalized message holds
\* the [GRAPHQL] tag, or that is made while an operation name is set, issues
\* no report; every other call issues a report.
C20_Suppression ==
    \A n \in DOMAIN calls :
       calls[n].intercepted =>
          LET suppressed ==
                 \/ /\ calls[n].error.kind = "text"
                    /\ Includes(calls[n].error.tokens, GraphqlTag)
                 \/ calls[n].operation # NoOperation
          IN  /\ suppressed => ReportOf(n) = {}
              /\ ~suppressed => ReportOf(n) # {}

\* what classifySeverity looked at for report k: the message and the
\* serialized context, in lower case
Haystack(k) ==
    LowerCase(reports[k].error.tokens) \o <<" ">> \o
    LowerCase(ExtraText(calls[reports[k].call].args))

\* C21: the tiers are matched in the order major, degraded, minimal over the
\* text of the event (message and context), first match wins: an event with
\* a major keyword is major whatever else it holds, one with a degraded and
\* no major keyword is degraded, one with minimal keywords only is minimal,
\* one with no keyword is none.
C21_FirstMatchWins ==
    \A k \in DOMAIN reports :
       LET major == \E h \in majorHints : IncludesHint(Haystack(k), h)
           degraded == \E h \in degradedHints : IncludesHint(Haystack(k), h)
           minimal == \E h \in minimalHints : IncludesHint(Haystack(k), h)
       IN  /\ major => reports[k].severity = "major"
           /\ (~major /\ degraded) => reports[k].severity = "degraded"
           /\ (~major /\ ~degraded /\ minimal) => reports[k].severity = "minimal"
           /\ (~major /\ ~degraded /\ ~minimal) => reports[k].severity = "none"

\* a message with ECONNREFUSED and "timed out" was reported as major, one
\* with "timed out" and "slow query" as degraded
C21_Witness ==
    /\ \E k \in DOMAIN reports :
          /\ reports[k].error.tokens = <<"ECONNREFUSED", "-", "request", "Timed", "out">>
          /\ reports[k].severity = "major"
    /\ \E k \in DOMAIN reports :
          /\ reports[k].error.tokens =
                <<"request", "timed", "out", "after", "slow", "query">>
          /\ calls[reports[k].call].args.ctx = <<>>
          /\ reports[k].severity = "degraded"

\* C22 as claimed: the severity of a report follows from its message alone:
\* major with "ECONNREFUSED", degraded with "timed out", minimal with "slow
\* query", none without a recognized keyword in the message.
C22_AsClaimed ==
    \A k \in DOMAIN reports :
       LET m == LowerCase(reports[k].error.tokens) IN
           /\ IncludesHint(m, <<"econnrefused">>) => reports[k].severity = "major"
           /\ IncludesHint(m, <<"timed", "out">>) => reports[k].severity = "degraded"
           /\ IncludesHint(m, <<"slow", "query">>) => reports[k].severity = "minimal"
           /\ ~(\E h \in majorHints \cup degradedHints \cup minimalHints :
                   IncludesHint(m, h)) => reports[k].severity = "none"

\* C22: the examples hold for the message together with its context: a
\* message with "ECONNREFUSED" is major; one with "timed out" is degraded
\* unless message or context holds a major keyword; one with "slow query" is
\* minimal unless message or context holds a major or degraded keyword; one
\* without a keyword gets the tier of the keywords of its context, none when
\* the context holds none.
C22_Examples ==
    \A k \in DOMAIN reports :
       LET m == LowerCase(reports[k].error.tokens)
           major == \E h \in majorHints : IncludesHint(Haystack(k), h)
           degraded == \E h \in degradedHints : IncludesHint(Haystack(k), h)
           minimal == \E h \in minimalHints : IncludesHint(Haystack(k), h)
       IN  /\ IncludesHint(m, <<"econnrefused">>) => reports[k].severity = "major"
           /\ IncludesHint(m, <<"timed", "out">>) =>
                 reports[k].severity = IF major THEN "major" ELSE "degraded"
           /\ IncludesHint(m, <<"slow", "query">>) =>
                 reports[k].severity = IF major THEN "major"
                                       ELSE IF degraded THEN "degraded"
                                       ELSE "minimal"
           /\ ~(\E h \in majorHints \cup degradedHints \cup minimalHints :
                   IncludesHint(m, h)) =>
                 reports[k].severity = IF major THEN "major"
                                       ELSE IF degraded THEN "degraded"
                                       ELSE IF minimal THEN "minimal"
                                       ELSE "none"

\* a message without keyword was reported as degraded for the "retry" in its
\* context, and the same message without context as none
C22_Witness ==
    /\ \E k \in DOMAIN reports :
          /\ reports[k].error.tokens = <<"boom">>
          /\ calls[reports[k].call].args.ctx = <<"retry">>
          /\ reports[k].severity = "degraded"
    /\ \E k \in DOMAIN reports :
          /\ reports[k].error.tokens = <<"boom">>
          /\ calls[reports[k].call].args.ctx = <<>>
          /\ reports[k].severity = "none"

\* C31: every console.error call that is not suppressed issues exactly one
\* report, and the local logging of a failed report issues none: every report
\* stems from a call of the application, so that one error event causes one
\* report attempt even when the sink stays unreachable
C31_OneReportPerEvent ==
    /\ \A n \in DOMAIN calls :
          /\ Cardinality(ReportOf(n)) <= 1
          /\ calls[n].forward => Cardinality(ReportOf(n)) = 1
    /\ \A k \in DOMAIN reports : calls[reports[k].call].origin = "app"

\* ceil(n / d)
CeilDiv(n, d) == (n + d - 1) \div d

\* the places of the fetched batches that hold row id
FetchesOf(id) ==
    {p \in (1..Len(batches)) \X (1..MaxRows + 1) :
        p[2] <= Len(batches[p[1]]) /\ batches[p[1]][p[2]] = id}

\* C34: when every query of the node and every database call returns and no
\* row is inserted, syncBalances terminates; it ends only on a batch query
\* that returns no row, and then every one of the n rows has been fetched
\* exactly once, in ceil(n / LIMIT) batches, none of them empty
C34_Terminates ==
    /\ <>(spc = "done")
    /\ [][spc' = "done" /\ spc # "done" =>
             BatchQuery(DOMAIN balance, currentId, batchLimit) = <<>>]_vars
    /\ [](spc = "done" =>
             /\ Len(batches) = CeilDiv(Len(balance), batchLimit)
             /\ \A k \in 1..Len(batches) : batches[k] # <<>>
             /\ \A id \in DOMAIN balance : Cardinality(FetchesOf(id)) = 1)
    /\ [](/\ Len(batches) <= CeilDiv(Len(balance), batchLimit)
          /\ \A id \in DOMAIN balance : Cardinality(FetchesOf(id)) <= 1)

\* three rows at LIMIT 2 were fetched in two batches, and the third query
\* returned no row
C34_Witness ==
    /\ variant = "full" /\ spc = "done"
    /\ Len(balance) = 3 /\ batchLimit = 2
    /\ batches = <<(<<1, 2>>), (<<3>>)>>
    /\ BatchQuery(DOMAIN balance, currentId, batchLimit) = <<>>

\* C35: when MONITORING_URL, INSTANCE_NAME or ERROR_REPORT_API_KEY is missing
\* or blank, console.error is never replaced and no report is ever sent; when
\* all three hold a value, initializeErrorMonitoring has replaced console.error
C35_OffUnlessConfigured ==
    LET blank(v) == v = Unset \/ \A k \in 1..Len(v) : v[k] = " " IN
        /\ (\E n \in EnvNames : blank(env[n])) =>
              /\ ~installed
              /\ reports = <<>>
              /\ \A c \in DOMAIN calls : ~calls[c].forward
        /\ (monpc = "ready" /\ \A n \in EnvNames : ~blank(env[n])) => installed

\* one setting holds spaces only: initializeErrorMonitoring has logged its
\* warning, the application has called console.error and nothing was reported
C35_Witness ==
    /\ monpc = "ready" /\ ~installed
    /\ env["ERROR_REPORT_API_KEY"] = <<" ">>
    /\ \A n \in EnvNames \ {"ERROR_REPORT_API_KEY"} : Configured(env[n])
    /\ \E c \in DOMAIN calls : calls[c].origin = "app"
    /\ reports = <<>>

\* C36: when a run of syncRecentBalances that selected n > 0 rows prints its
\* summary, successCount + errorCount = n, successCount is the number of rows
\* whose balance the run updated, and the rows counted in errorCount (the
\* others) were left unchanged, in whatever order the row tasks ran
C36_CounterAccounting ==
    (variant = "recent" /\ spc = "done" /\ rows # <<>>) =>
        /\ successCount + errorCount = Len(rows)
        /\ touched \subseteq Range(rows)
        /\ successCount = Cardinality(touched)
        /\ errorCount = Cardinality(Range(rows) \ touched)
        /\ \A i \in Range(rows) \ touched :
              /\ answer[i] # "success" \/ runFaulted
              /\ srun = 1 => balance[i] = 1
        /\ \A i \in touched : balance[i] = NodeBalance(i)

\* a run over three rows printed "Updated: 1, Errors: 2": the node failed for
\* one row and the UPDATE of another threw
C36_Witness ==
    /\ variant = "recent" /\ spc = "done" /\ srun = 1
    /\ Len(rows) = 3
    /\ successCount = 1 /\ errorCount = 2
    /\ runFaulted
    /\ Cardinality({i \in Range(rows) : answer[i] = "success"}) = 2

\* C37: whenever a run of a single migration has returned or has ended the
\* process, in either version of the script and whether the migration
\* succeeded or failed, the temporary directory made for it is removed: no
\* temp-migration- directory exists between the runs
C37_TempDirRemoved == tempDirs = {}

\* C38: a row whose code is NULL never aborts the validation pass, and the
\* UPDATE of its window sets its codetext to NULL as it does for a row holding
\* '{}'; a row holding a quoted string gets the string without its quotes
C38_NullCode ==
    LET expected(raw) == IF raw = SqlNull \/ raw = EmptyObject THEN SqlNull
                         ELSE SubSeq(raw, 2, Len(raw) - 1)
    IN  /\ abortId # 0 => code[abortId] # SqlNull
        /\ \A n \in 1..Len(mlog) :
              mlog[n][1] = "abort" => code[mlog[n][2]] # SqlNull
        /\ mpc = "updated" =>
              \A i \in RowsIn(code, batchMinId, currentMaxId) :
                  i \in DOMAIN txWrites /\ txWrites[i] = expected(code[i])
        /\ \A i \in converted : codetext[i] = expected(code[i])
        /\ \A k \in 1..Len(committedWins) :
              RowsIn(code, committedWins[k].lo, committedWins[k].hi)
                 \subseteq converted

\* a table of a NULL, a '{}' and a quoted string was converted in one window
C38_Witness ==
    /\ mpc = "done" /\ mrun = 1
    /\ DOMAIN code = 1..3
    /\ code[1] = SqlNull /\ code[2] = EmptyObject /\ code[3] = QuotedA
    /\ committedWins = <<Window(1, 3)>>
    /\ converted = 1..3
    /\ codetext[1] = SqlNull /\ codetext[2] = SqlNull /\ codetext[3] = <<"a">>

\* C33: every window moves currentMaxId strictly down and processedSpan
\* strictly up, processedSpan after a window lies in 1..totalTransactions, and
\* it is totalTransactions exactly when the loop condition fails
C33_MonotonicProgress ==
    /\ [][(mpc = "updated" /\ mpc' = "loop") =>
             /\ currentMaxId' < currentMaxId
             /\ ProcessedSpan(currentMaxId') > ProcessedSpan(currentMaxId)
             /\ ProcessedSpan(currentMaxId') \in 1..totalTransactions]_vars
    /\ []((mpc = "loop" /\ windows # <<>>) =>
             (ProcessedSpan(currentMaxId) = totalTransactions
                <=> currentMaxId < startTransactionIdForCode))
    /\ [](mpc = "done" => ProcessedSpan(currentMaxId) = totalTransactions)

\* the run over 1205 ids has left the loop after three windows, the ids the
\* windows cover from the top adding up to all of them
C33_Witness ==
    /\ mpc = "done"
    /\ maxTransactionID = 1205
    /\ Len(committedWins) = 3
    /\ \A k \in 1..3 : ProcessedSpan(committedWins[k].lo - 1) = Min({500 * k, 1205})
    /\ ProcessedSpan(currentMaxId) = totalTransactions

\* C32: every row the UPDATE of a window converts was read by the validation
\* pass of the same window, with the code it has when the UPDATE reads it, and
\* was accepted, also when another client writes rows of the window in between
C32_ValidatedIsUpdated ==
    \A i \in DOMAIN txReads.update :
        /\ i \in DOMAIN txReads.validation
        /\ txReads.validation[i] = txReads.update[i]
        /\ RowAccepted(txReads.update[i])

\* the process with error monitoring, each setting absent or present: no job
\* is modelled beside it
MonitorStart ==
    /\ MigIdle /\ LimIdle /\ SyncIdle /\ MonInit /\ ToolIdle
    /\ \A n \in EnvNames : env[n] \in {Unset, <<" ", "x", " ">>}

MonitorSpec == MonitorStart /\ [][MonNext]_vars

\* the process under every environment, outside GraphQL operations
ConfigStart == MigIdle /\ LimIdle /\ SyncIdle /\ MonInit /\ ToolIdle

ConfigNext ==
    \/ Initialize
    \/ \E args \in ArgShapes : ConsoleError(args)
    \/ \E k \in DOMAIN reports : SinkDelivers(k)
    \/ \E k \in DOMAIN reports : SinkFails(k)

ConfigSpec == ConfigStart /\ [][ConfigNext]_vars

\* the classification of reported events
SeverityStart == MigIdle /\ LimIdle /\ SyncIdle /\ MonReady /\ ToolIdle

SeveritySpec == SeverityStart /\ [][SeverityNext]_vars

JobStart == Init \/ SyncStart

JobNext == MigNext \/ SyncNext

\* one of the jobs runs: the migration or a balance sync
JobSpec == JobStart /\ [][JobNext]_vars

\* one of the two windowed jobs runs, stops and is run again
ResumeStart == Init \/ ScanStart

ResumeNext ==
    \/ MigNext
    \/ FetchBatch
    \/ SelectFail
    \/ \E id \in DOMAIN balance : TokenReturn(id)
    \/ \E id \in DOMAIN balance : FullOracleAnswers(id)
    \/ AllSettled
    \/ ApplyUpdate
    \/ ApplyUpdateFail
    \/ FinishBatch
    \/ SyncRerun

ResumeSpec == ResumeStart /\ [][ResumeNext]_vars

\* one of the two windowed jobs runs: the migration, or syncBalances beside
\* other clients of its table
WindowedStart == Init \/ ScanStart

WindowedNext == MigNext \/ ScanNext

WindowedSpec == WindowedStart /\ [][WindowedNext]_vars

\* the migration over a long range of ids, no step of it failing
ProgressStart ==
    /\ LimIdle /\ SyncIdle /\ MonIdle /\ ToolIdle
    /\ \E r \in ProgressRuns :
          /\ code = [i \in {1, r[1]} |-> QuotedA]
          /\ batchSize = r[2]
    /\ codetext = [i \in DOMAIN code |-> SqlNull]
    /\ converted = {}
    /\ mpc = "start" /\ mrun = 1 /\ earlierIds = {}
    /\ MigFresh

ProgressNext ==
    \/ QueryMax
    \/ BeginBatch
    \/ ValidateBatch
    \/ UpdateBatch
    \/ CommitBatch
    \/ LoopExit

ProgressSpec == ProgressStart /\ [][ProgressNext]_vars

\* the migration of a small table while another client writes to the table
WriterStart == Init /\ code \in SmallTables /\ batchSize \in SmallBatchSizes

WriterNext ==
    \/ ProgressNext
    \/ \E i \in 1..MaxId, raw \in RawValues : OtherClientWrites(i, raw)

WriterSpec == WriterStart /\ [][WriterNext]_vars

=============================================================================
